---------------------------- MODULE Spec2Model ----------------------------
(***************************************************************************)
(* A model of the taskgraph engine (src/taskgraph/taskgraph.py): one       *)
(* TaskGraphProject (its DAG and its metadata mapping), the resolution     *)
(* rule ladder, the project's mutating operations, and the scheduler's     *)
(* wake-up queue driving resolve_dependency; and of the database manager   *)
(* (src/backend/database.py) with the start of the process                 *)
(* (src/backend/main.py): the project files, the index and the scheduler   *)
(* file, saved, loaded and autosaved.                                      *)
(*                                                                         *)
(* Task ids are natural numbers handed out by a counter (uuid4 never       *)
(* repeats); timestamps are natural numbers read from the clock `now`.     *)
(* Every operation is one atomic step taken at one clock reading; the      *)
(* clock advances between operations (Tick).                               *)
(***************************************************************************)
EXTENDS Integers, Sequences, FiniteSets, TLC

VARIABLES
    dag_nodes,      \* TaskGraphProject.dag: the node set
    dag_edges,      \* TaskGraphProject.dag: the edges <<dep, task>>, in insertion order
    metadata,       \* TaskGraphProject.metadata: task id -> metadata item
    task_root,      \* TaskGraphProject.task_root
    next_uuid,      \* the next task id uuid4 hands out
    now,            \* time.time()
    event_heap,     \* TaskGraphScheduler.event_heap: <<timestamp, event id, type>>
    event_map,      \* TaskGraphScheduler.event_map: event id -> task id
    loop_alive,     \* the periodic_check coroutine has not ended
    second_loop,    \* the coroutine of a second start_scheduler has not ended
    scheduler_running, \* TaskGraphScheduler.scheduler_running
    manager_running,   \* TaskGraphDatabaseManager.manager_running
    t_next_autosave,   \* t_next_autosave of the manager's periodic_check
    nops,           \* number of operations called so far
    lastOp,         \* the operation called last, its arguments and its outcome
    fired,          \* the ids of the events whose handler has been invoked
    projects,       \* TaskGraph.projects: the ids of the projects it holds
    project_hashes, \* TaskGraphDatabaseManager.project_hashes: project id -> hash
    project_db,     \* the file projects/<id>.json of the project
    other_db,       \* the file projects/<id>.json of the second project
    projects_db,    \* the file projects.json
    scheduler_db    \* the file scheduler.json

\* the database manager's table and the files
dbvars == <<project_hashes, project_db, other_db, projects_db, scheduler_db>>

\* the periodic_check loops: the scheduler's coroutines and flag, the
\* manager's flag and its next autosave
loopvars == <<loop_alive, second_loop, scheduler_running, manager_running,
              t_next_autosave>>

vars == <<dag_nodes, dag_edges, metadata, task_root, next_uuid, now,
          event_heap, event_map, loopvars, nops, lastOp, fired,
          projects, dbvars>>

(***************************************************************************)
(* Bounds of the exploration.                                              *)
(***************************************************************************)
\* operations called in one behaviour
MaxOps == 3
\* largest clock reading
MaxTime == 2
\* events scheduled in one behaviour
MaxEvents == 2

(***************************************************************************)
(* Values.                                                                 *)
(***************************************************************************)
\* Python's None in an Optional[float] field or an unused argument
None == -1
\* an id that uuid4 never handed out
UnknownId == 0

NoStatus == "None"
Done == "Done"
Active == "Active"
Pending == "Pending"
Snoozed == "Snoozed"
TaskStatus == {Done, Active, Pending, Snoozed}

\* the issues field: None, or the dict of the task's issues (a dict is the
\* function issue id -> TaskGraphIssue)
NoIssues == <<>>
Issues(dict) == <<dict>>
EmptyDict == <<>>

Open == "Open"
Closed == "Closed"

\* an Optional[str] field: None, or the string it holds
NoText == <<>>
Text(s) == <<s>>

\* TaskGraphTaskMetadataItem(): every field None
TaskGraphTaskMetadataItem ==
    [name |-> NoText, detail |-> NoText, status |-> NoStatus, wake_after |-> None,
     time_done |-> None, issues |-> NoIssues]

\* the metadata item __add_root gives the root task
root_item == [TaskGraphTaskMetadataItem EXCEPT !.name = Text("Finish"), !.status = Active]

\* the id new_project gave the project whose tasks the model follows, and
\* the id it gives a second project, which is created and never mutated
project_uuid == "project"
other_uuid == "other"
\* the ids in the order the projects are created, which is the order of the
\* dict TaskGraph.projects and of the index
project_ids == <<project_uuid, other_uuid>>

\* the second project as __init__ leaves it: its root task and nothing else
other_root == 100
OtherProject ==
    [nodes |-> {other_root}, edges |-> <<>>, metadata |-> [t \in {other_root} |-> root_item]]

\* the interval between two autosaves, in ticks of the model's clock
AutosavePeriod == 1

\* a file is the sequence of the one document it holds; os.path.exists is
\* false of NoFile
NoFile == <<>>
File(doc) == <<doc>>
Read(file) == file[1]

\* a document that json.loads or TaskGraphProjectData(**r) rejects: a file
\* cut short, with the required field metadata missing
Malformed == [DAG |-> <<>>]
is_valid(doc) == {"DAG", "metadata"} \subseteq DOMAIN doc

NoError == "ok"
ValidationError == "ValidationError"
KeyError == "KeyError"
ValueError == "ValueError"
NetworkXError == "NetworkXError"

(***************************************************************************)
(* The project as a value, and the outcome of a call: the project it       *)
(* leaves and the exception it raised, if any.                             *)
(***************************************************************************)
Project == [nodes |-> dag_nodes, edges |-> dag_edges, metadata |-> metadata]

Return(p) == [p |-> p, err |-> NoError]
Raise(p, e) == [p |-> p, err |-> e]

Range(s) == {s[i] : i \in 1..Len(s)}

\* dict without a key
Pop(f, k) == [x \in (DOMAIN f) \ {k} |-> f[x]]
\* dict with a key set
Put(f, k, v) == [x \in (DOMAIN f) \cup {k} |-> IF x = k THEN v ELSE f[x]]

\* nx.DiGraph.predecessors / successors: the neighbours in edge insertion order
predecessors(p, t) ==
    LET es == SelectSeq(p.edges, LAMBDA e : e[2] = t)
    IN  [i \in 1..Len(es) |-> es[i][1]]

successors(p, t) ==
    LET es == SelectSeq(p.edges, LAMBDA e : e[1] = t)
    IN  [i \in 1..Len(es) |-> es[i][2]]

\* nx.DiGraph.add_edge: both ends become nodes; an edge already there keeps its place
add_edge(p, u, v) ==
    [p EXCEPT !.nodes = @ \cup {u, v},
              !.edges = IF <<u, v>> \in Range(@) THEN @ ELSE Append(@, <<u, v>>)]

\* nx.DiGraph.remove_node: the node and every edge touching it
remove_node(p, n) ==
    [p EXCEPT !.nodes = @ \ {n},
              !.edges = SelectSeq(@, LAMBDA e : e[1] # n /\ e[2] # n)]

\* nx.DiGraph.remove_edge
remove_edge(p, u, v) ==
    [p EXCEPT !.edges = SelectSeq(@, LAMBDA e : e # <<u, v>>)]

SetStatus(p, t, s) == [p EXCEPT !.metadata[t].status = s]

(***************************************************************************)
(* resolve_dependency                                                      *)
(***************************************************************************)
\* mutant: a Snoozed task without wake_after counts as awake
check_snoozed_unset_awake(p, t, clock) ==
    LET meta == p.metadata[t]
    IN  IF meta.status = Snoozed /\ meta.wake_after # None /\ clock <= meta.wake_after
        THEN "snoozed"
        ELSE "awake"

\* mutant: the task wakes at wake_after already (>= for >)
check_snoozed_ge(p, t, clock) ==
    LET meta == p.metadata[t]
    IN  IF meta.status = Snoozed
        THEN IF meta.wake_after = None THEN ValueError
             ELSE IF clock >= meta.wake_after THEN "awake"
             ELSE "snoozed"
        ELSE "awake"

\* __check_snoozed: "snoozed" (True), "awake" (False) or the ValueError
check_snoozed(p, t, clock) ==
    LET meta == p.metadata[t]
    IN  IF meta.status = Snoozed
        THEN IF meta.wake_after = None THEN ValueError
             ELSE IF clock > meta.wake_after THEN "awake"
             ELSE "snoozed"
        ELSE "awake"

\* mutant: all_dependency_resolved starts False and a Done predecessor sets
\* it, so a task without predecessors is never resolved
all_dependency_resolved_init_false(p, preds) ==
    LET bad == {i \in 1..Len(preds) :
                   \/ preds[i] \notin DOMAIN p.metadata
                   \/ p.metadata[preds[i]].status # Done}
        first == CHOOSE i \in bad : \A j \in bad : i <= j
    IN  IF preds = <<>> THEN "unresolved"
        ELSE IF bad = {} THEN "resolved"
        ELSE IF preds[first] \notin DOMAIN p.metadata THEN KeyError
        ELSE "unresolved"

\* the loop over the predecessors: "resolved", "unresolved" (break) or the
\* KeyError of a predecessor that has no metadata
RECURSIVE all_dependency_resolved(_, _)
all_dependency_resolved(p, preds) ==
    IF preds = <<>> THEN "resolved"
    ELSE IF Head(preds) \notin DOMAIN p.metadata THEN KeyError
    ELSE IF p.metadata[Head(preds)].status = Done
         THEN all_dependency_resolved(p, Tail(preds))
    ELSE "unresolved"

\* mutant: the loop runs over the successors instead of the predecessors
resolve_dependency_successors(p, t, clock) ==
    IF t \notin DOMAIN p.metadata THEN Return(p)
    ELSE IF p.metadata[t].status = Done THEN Return(p)
    ELSE LET cs == check_snoozed(p, t, clock)
         IN  IF cs = ValueError THEN Raise(p, ValueError)
             ELSE IF cs = "snoozed" THEN Return(p)
             ELSE LET r == all_dependency_resolved(p, successors(p, t))
                  IN  IF r = KeyError THEN Raise(p, KeyError)
                      ELSE IF r = "resolved" THEN Return(SetStatus(p, t, Active))
                      ELSE Return(SetStatus(p, t, Pending))

resolve_dependency(p, t, clock) ==
    IF t \notin DOMAIN p.metadata THEN Return(p)
    ELSE IF p.metadata[t].status = Done THEN Return(p)
    ELSE LET cs == check_snoozed(p, t, clock)
         IN  IF cs = ValueError THEN Raise(p, ValueError)
             ELSE IF cs = "snoozed" THEN Return(p)
             ELSE LET r == all_dependency_resolved(p, predecessors(p, t))
                  IN  IF r = KeyError THEN Raise(p, KeyError)
                      ELSE IF r = "resolved" THEN Return(SetStatus(p, t, Active))
                      ELSE Return(SetStatus(p, t, Pending))

\* "for node in ...: self.resolve_dependency(node)": the first exception ends the loop
RECURSIVE resolve_each(_, _, _)
resolve_each(p, ts, clock) ==
    IF ts = <<>> THEN Return(p)
    ELSE LET r == resolve_dependency(p, Head(ts), clock)
         IN  IF r.err # NoError THEN r
             ELSE resolve_each(r.p, Tail(ts), clock)

(***************************************************************************)
(* The project's operations, as functions of the project value.  `new` is  *)
(* the id uuid4 returns inside the call.                                   *)
(***************************************************************************)
\* mutant: the status is computed eagerly, a Done dep does not force Pending
add_dependency_eager(p, task_uuid, dep) ==
    LET p1 == add_edge(p, dep, task_uuid)
    IN  IF task_uuid \notin DOMAIN p1.metadata THEN Raise(p1, KeyError)
        ELSE IF dep \in DOMAIN p1.metadata /\ p1.metadata[dep].status = Done
        THEN Return(p1)
        ELSE Return(SetStatus(p1, task_uuid, Pending))

add_dependency(p, task_uuid, dep) ==
    LET p1 == add_edge(p, dep, task_uuid)
    IN  IF task_uuid \notin DOMAIN p1.metadata THEN Raise(p1, KeyError)
        ELSE Return(SetStatus(p1, task_uuid, Pending))

\* mutant: the edge is added the wrong way round (the new task depends on
\* the parent)
add_sub_task_reversed(p, parent, new) ==
    LET p1 == [p EXCEPT !.metadata = Put(@, new, TaskGraphTaskMetadataItem),
                        !.nodes = @ \cup {new}]
        r == add_dependency(p1, new, parent)
    IN  IF r.err # NoError THEN r
        ELSE Return(SetStatus(r.p, new, Active))

\* add_sub_task with the metadata item the caller gives the new task
add_sub_task_meta(p, parent, meta, new) ==
    LET p1 == [p EXCEPT !.metadata = Put(@, new, meta),
                        !.nodes = @ \cup {new}]
        r == add_dependency(p1, parent, new)
    IN  IF r.err # NoError THEN r
        ELSE Return(SetStatus(r.p, new, Active))

\* add_sub_task with meta=None
add_sub_task(p, parent, new) ==
    add_sub_task_meta(p, parent, TaskGraphTaskMetadataItem, new)

add_super_task(p, child, new) ==
    LET p1 == [p EXCEPT !.metadata = Put(@, new, TaskGraphTaskMetadataItem),
                        !.nodes = @ \cup {new}]
    IN  add_dependency(p1, new, child)

\* mutant: the edge is removed and the task is not resolved
remove_dependency_no_resolve(p, task_uuid, dep_uuid, clock) ==
    IF <<dep_uuid, task_uuid>> \notin Range(p.edges) THEN Raise(p, KeyError)
    ELSE Return(remove_edge(p, dep_uuid, task_uuid))

remove_dependency(p, task_uuid, dep_uuid, clock) ==
    IF <<dep_uuid, task_uuid>> \notin Range(p.edges) THEN Raise(p, KeyError)
    ELSE resolve_dependency(remove_edge(p, dep_uuid, task_uuid), task_uuid, clock)

\* mutant: the successors are read after the node is removed, when there
\* are none left to resolve
remove_task_late_capture(p, task_uuid, clock) ==
    IF task_uuid \notin p.nodes THEN Raise(p, NetworkXError)
    ELSE LET p1 == remove_node(p, task_uuid)
             super_tasks == successors(p1, task_uuid)
         IN  IF task_uuid \notin DOMAIN p1.metadata THEN Raise(p1, KeyError)
             ELSE resolve_each([p1 EXCEPT !.metadata = Pop(@, task_uuid)],
                               super_tasks, clock)

remove_task(p, task_uuid, clock) ==
    IF task_uuid \notin p.nodes THEN Raise(p, NetworkXError)
    ELSE LET super_tasks == successors(p, task_uuid)
             p1 == remove_node(p, task_uuid)
         IN  IF task_uuid \notin DOMAIN p1.metadata THEN Raise(p1, KeyError)
             ELSE resolve_each([p1 EXCEPT !.metadata = Pop(@, task_uuid)],
                               super_tasks, clock)

\* mutant: the successors are not resolved
task_done_no_resolve(p, task_uuid, clock) ==
    IF task_uuid \notin DOMAIN p.metadata THEN Raise(p, KeyError)
    ELSE Return([p EXCEPT !.metadata[task_uuid].status = Done,
                          !.metadata[task_uuid].time_done = clock])

task_done(p, task_uuid, clock) ==
    IF task_uuid \notin DOMAIN p.metadata THEN Raise(p, KeyError)
    ELSE LET p1 == [p EXCEPT !.metadata[task_uuid].status = Done,
                             !.metadata[task_uuid].time_done = clock]
         IN  resolve_each(p1, successors(p1, task_uuid), clock)

\* mutant: a Done task is not snoozed
task_snooze_keep_done(p, task_uuid, snooze_until) ==
    IF task_uuid \notin DOMAIN p.metadata THEN Raise(p, KeyError)
    ELSE IF p.metadata[task_uuid].status = Done THEN Return(p)
    ELSE Return([p EXCEPT !.metadata[task_uuid].status = Snoozed,
                          !.metadata[task_uuid].wake_after = snooze_until])

task_snooze(p, task_uuid, snooze_until) ==
    IF task_uuid \notin DOMAIN p.metadata THEN Raise(p, KeyError)
    ELSE Return([p EXCEPT !.metadata[task_uuid].status = Snoozed,
                          !.metadata[task_uuid].wake_after = snooze_until])

\* modify_task_metadata with a status given and no name or detail: the test
\* is on the DAG's nodes, the write is to the metadata
modify_task_metadata(p, task_uuid, status) ==
    IF task_uuid \notin p.nodes THEN Raise(p, ValueError)
    ELSE IF task_uuid \notin DOMAIN p.metadata THEN Raise(p, KeyError)
    ELSE Return(SetStatus(p, task_uuid, status))

(***************************************************************************)
(* The issue operations.  `new` is the id uuid4 returns inside the call.   *)
(***************************************************************************)
TaskGraphIssue(title, description) ==
    [title |-> title, status |-> Open, description |-> description, time_close |-> None]

task_open_issue(p, task_uuid, title, description, new) ==
    IF task_uuid \notin DOMAIN p.metadata THEN Raise(p, KeyError)
    ELSE LET task_meta == p.metadata[task_uuid]
             issues == IF task_meta.issues = NoIssues THEN EmptyDict
                       ELSE task_meta.issues[1]
         IN  Return([p EXCEPT !.metadata[task_uuid].issues =
                                  Issues(Put(issues, new, TaskGraphIssue(title, description)))])

task_close_issue(p, task_uuid, issue_uuid, clock) ==
    IF task_uuid \notin DOMAIN p.metadata THEN Raise(p, KeyError)
    ELSE IF p.metadata[task_uuid].issues = NoIssues THEN Raise(p, ValueError)
    ELSE IF issue_uuid \notin DOMAIN p.metadata[task_uuid].issues[1] THEN Raise(p, ValueError)
    ELSE Return([p EXCEPT !.metadata[task_uuid].issues[1][issue_uuid].status = Closed,
                          !.metadata[task_uuid].issues[1][issue_uuid].time_close = clock])

task_modify_issue(p, task_uuid, issue_uuid, title) ==
    IF task_uuid \notin DOMAIN p.metadata THEN Raise(p, KeyError)
    ELSE IF p.metadata[task_uuid].issues = NoIssues THEN Raise(p, ValueError)
    ELSE IF issue_uuid \notin DOMAIN p.metadata[task_uuid].issues[1] THEN Raise(p, ValueError)
    ELSE Return([p EXCEPT !.metadata[task_uuid].issues[1][issue_uuid].title = title])

task_reopen_issue(p, task_uuid, issue_uuid) ==
    IF task_uuid \notin DOMAIN p.metadata THEN Raise(p, KeyError)
    ELSE IF p.metadata[task_uuid].issues = NoIssues THEN Raise(p, ValueError)
    ELSE IF issue_uuid \notin DOMAIN p.metadata[task_uuid].issues[1] THEN Raise(p, ValueError)
    ELSE Return([p EXCEPT !.metadata[task_uuid].issues[1][issue_uuid].status = Open])

\* task_delete_issue has no membership test of its own: dict.pop raises
task_delete_issue(p, task_uuid, issue_uuid) ==
    IF task_uuid \notin DOMAIN p.metadata THEN Raise(p, KeyError)
    ELSE IF p.metadata[task_uuid].issues = NoIssues THEN Raise(p, ValueError)
    ELSE IF issue_uuid \notin DOMAIN p.metadata[task_uuid].issues[1] THEN Raise(p, KeyError)
    ELSE Return([p EXCEPT !.metadata[task_uuid].issues[1] = Pop(@, issue_uuid)])

\* mutant: the description of the issue is not copied to the new task
task_raise_issue_without_detail(p, task_uuid, issue_uuid, new) ==
    IF task_uuid \notin DOMAIN p.metadata THEN Raise(p, KeyError)
    ELSE IF p.metadata[task_uuid].issues = NoIssues THEN Raise(p, ValueError)
    ELSE IF issue_uuid \notin DOMAIN p.metadata[task_uuid].issues[1] THEN Raise(p, ValueError)
    ELSE LET issue == p.metadata[task_uuid].issues[1][issue_uuid]
             sub_task_meta == [TaskGraphTaskMetadataItem EXCEPT !.name = Text(issue.title)]
             r == add_sub_task_meta(p, task_uuid, sub_task_meta, new)
         IN  IF r.err # NoError THEN r
             ELSE Return([r.p EXCEPT !.metadata[task_uuid].issues[1] = Pop(@, issue_uuid)])

\* task_raise_issue: the issue becomes a sub-task of its task, named after
\* its title and detailed by its description, and is popped
task_raise_issue(p, task_uuid, issue_uuid, new) ==
    IF task_uuid \notin DOMAIN p.metadata THEN Raise(p, KeyError)
    ELSE IF p.metadata[task_uuid].issues = NoIssues THEN Raise(p, ValueError)
    ELSE IF issue_uuid \notin DOMAIN p.metadata[task_uuid].issues[1] THEN Raise(p, ValueError)
    ELSE LET issue == p.metadata[task_uuid].issues[1][issue_uuid]
             sub_task_meta == [TaskGraphTaskMetadataItem EXCEPT
                                  !.name = Text(issue.title),
                                  !.detail = issue.description]
             r == add_sub_task_meta(p, task_uuid, sub_task_meta, new)
         IN  IF r.err # NoError THEN r
             ELSE Return([r.p EXCEPT !.metadata[task_uuid].issues[1] = Pop(@, issue_uuid)])

\* a full resolution pass: resolve_dependency on every task, in the order of
\* the metadata mapping (the order of creation)
RECURSIVE in_order(_)
in_order(S) ==
    IF S = {} THEN <<>>
    ELSE LET m == CHOOSE x \in S : \A y \in S : x <= y
         IN  <<m>> \o in_order(S \ {m})

resolve_all(p, clock) == resolve_each(p, in_order(DOMAIN p.metadata), clock)

(***************************************************************************)
(* Serialization: TaskGraphProject.get_data / serialize write the DAG as   *)
(* node-link data and the metadata with the None fields left out; load     *)
(* builds the graph again and fills the fields that are missing with None. *)
(***************************************************************************)
\* a field that holds None
IsNone(field, value) ==
    IF field = "status" THEN value = NoStatus
    ELSE IF field = "issues" THEN value = NoIssues
    ELSE IF field \in {"name", "detail", "description"} THEN value = NoText
    ELSE value = None

\* one issue dumped with exclude_none, and parsed back with the defaults of
\* TaskGraphIssue (title and status are required fields)
dump_issue(issue) ==
    [f \in {g \in DOMAIN issue :
                ~(g \in {"description", "time_close"} /\ IsNone(g, issue[g]))} |-> issue[f]]

parse_issue(item) ==
    [f \in {"title", "status", "description", "time_close"} |->
        IF f \in DOMAIN item THEN item[f]
        ELSE IF f = "description" THEN NoText ELSE None]

\* the value of one field in the dump and back
dump_field(f, value) ==
    IF f = "issues" THEN Issues([i \in DOMAIN value[1] |-> dump_issue(value[1][i])])
    ELSE value

parse_field(f, value) ==
    IF f = "issues" THEN Issues([i \in DOMAIN value[1] |-> parse_issue(value[1][i])])
    ELSE value

\* mutant: wake_after is left out of the dump like a None field
dump_item_without_wake_after(meta) ==
    [f \in {g \in DOMAIN meta : ~IsNone(g, meta[g]) /\ g # "wake_after"} |->
        dump_field(f, meta[f])]

\* model_dump(exclude_none=True) of one metadata item: the fields that are set
dump_item(meta) ==
    [f \in {g \in DOMAIN meta : ~IsNone(g, meta[g])} |-> dump_field(f, meta[f])]

\* TaskGraphTaskMetadataItem(**item): the fields given, None for the others
parse_item(item) ==
    [f \in DOMAIN TaskGraphTaskMetadataItem |->
        IF f \in DOMAIN item THEN parse_field(f, item[f])
        ELSE TaskGraphTaskMetadataItem[f]]

\* the edges as DiGraph.edges yields them: node by node, each node's
\* out-edges in the order they were added
RECURSIVE adjacency(_, _)
adjacency(p, ns) ==
    IF ns = <<>> THEN <<>>
    ELSE LET succ == successors(p, Head(ns))
         IN  [i \in 1..Len(succ) |-> <<Head(ns), succ[i]>>] \o adjacency(p, Tail(ns))

\* nx.node_link_data: the nodes in the order they were added (the order of
\* their ids) and the links
node_link_data(p) ==
    [nodes |-> in_order(p.nodes), links |-> adjacency(p, in_order(p.nodes))]

\* mutant: source and target of every link are swapped
RECURSIVE add_links_swapped(_, _)
add_links_swapped(p, links) ==
    IF links = <<>> THEN p
    ELSE add_links_swapped(add_edge(p, Head(links)[2], Head(links)[1]), Tail(links))

\* nx.node_link_graph: the nodes, then the links added one by one
RECURSIVE add_links(_, _)
add_links(p, links) ==
    IF links = <<>> THEN p
    ELSE add_links(add_edge(p, Head(links)[1], Head(links)[2]), Tail(links))

node_link_graph(data) ==
    add_links([nodes |-> Range(data.nodes), edges |-> <<>>, metadata |-> <<>>],
              data.links)

\* TaskGraphProject.serialize: the document written for the project
serialize(p) ==
    [DAG |-> node_link_data(p),
     metadata |-> [t \in DOMAIN p.metadata |-> dump_item(p.metadata[t])]]

\* TaskGraphProject.load of a document read back
load(data) ==
    [node_link_graph(data.DAG) EXCEPT
        !.metadata = [t \in DOMAIN data.metadata |-> parse_item(data.metadata[t])]]

\* get_data_hash: the sha256 digest of the serialization, one digest for
\* one document
get_data_hash(p) == <<"sha256", serialize(p)>>

\* purge_metadata: the metadata of the ids that are nodes
purge_metadata(p) ==
    [p EXCEPT !.metadata = [t \in (DOMAIN p.metadata) \cap p.nodes |-> p.metadata[t]]]

(***************************************************************************)
(* Statistics and the index: update_statistics counts the tasks by status, *)
(* TaskGraph.get_data derives the status of each project from the counts.  *)
(* The counts are recomputed by every get_data and read by nothing else,   *)
(* so they are a value here and not a variable.                            *)
(***************************************************************************)
ProjectStatisticsData == [active |-> 0, snoozed |-> 0, pending |-> 0, done |-> 0, unknown |-> 0]

\* the loop of update_statistics over metadata.items()
RECURSIVE count_statuses(_, _, _)
count_statuses(md, ts, statistics) ==
    IF ts = <<>> THEN statistics
    ELSE LET v == md[Head(ts)]
             counted == IF v.status = NoStatus THEN [statistics EXCEPT !.unknown = @ + 1]
                        ELSE IF v.status = Done THEN [statistics EXCEPT !.done = @ + 1]
                        ELSE IF v.status = Active THEN [statistics EXCEPT !.active = @ + 1]
                        ELSE IF v.status = Pending THEN [statistics EXCEPT !.pending = @ + 1]
                        ELSE IF v.status = Snoozed THEN [statistics EXCEPT !.snoozed = @ + 1]
                        ELSE [statistics EXCEPT !.unknown = @ + 1]
         IN  count_statuses(md, Tail(ts), counted)

update_statistics(p) ==
    count_statuses(p.metadata, in_order(DOMAIN p.metadata), ProjectStatisticsData)

\* mutant: the snoozed count is looked at before the active count
project_status_snoozed_first(p) ==
    LET statistics == update_statistics(p)
    IN  IF statistics.snoozed > 0 THEN Snoozed
        ELSE IF statistics.active > 0 THEN Active
        ELSE Done

\* ProjectStatus of one project in TaskGraph.get_data
project_status(p) ==
    LET statistics == update_statistics(p)
    IN  IF statistics.active > 0 THEN Active
        ELSE IF statistics.snoozed > 0 THEN Snoozed
        ELSE Done

\* TaskGraph.get_data: the index, an item for every project held
get_data(projs, p) ==
    [projects |-> [id \in projs |->
        [status |-> IF id = project_uuid THEN project_status(p)
                    ELSE project_status(OtherProject)]]]

(***************************************************************************)
(* The database manager: save_project behind its hash gate.                *)
(***************************************************************************)
\* mutant: the hash of what was written is not recorded
save_project_no_record(project_id, p, hashes, file, check_hash) ==
    IF /\ check_hash
       /\ project_id \in DOMAIN hashes
       /\ get_data_hash(p) = hashes[project_id]
    THEN [p |-> p, project_hashes |-> hashes, project_db |-> file, written |-> 0]
    ELSE [p |-> purge_metadata(p),
          project_hashes |-> hashes,
          project_db |-> File(serialize(purge_metadata(p))),
          written |-> 1]

\* save_project: the project, the hash table and the project file it
\* leaves, and the number of files it wrote
save_project(project_id, p, hashes, file, check_hash) ==
    IF /\ check_hash
       /\ project_id \in DOMAIN hashes
       /\ get_data_hash(p) = hashes[project_id]
    THEN [p |-> p, project_hashes |-> hashes, project_db |-> file, written |-> 0]
    ELSE LET purged == purge_metadata(p)
         IN  [p |-> purged,
              project_hashes |-> Put(hashes, project_id, get_data_hash(purged)),
              project_db |-> File(serialize(purged)),
              written |-> 1]

\* save_project of a project the TaskGraph may not hold (save_projects
\* runs over the projects held)
save_if_held(project_id, projs, p, hashes, file, check_hash) ==
    IF project_id \in projs THEN save_project(project_id, p, hashes, file, check_hash)
    ELSE [p |-> p, project_hashes |-> hashes, project_db |-> file, written |-> 0]

\* save_database: save_projects over the projects held, in their order,
\* then the index; what it leaves of the project, the hash table and the
\* files, and the number of project files it wrote
save_database(projs, p, hashes, file, other_file, check_hash) ==
    LET r == save_if_held(project_uuid, projs, p, hashes, file, check_hash)
        o == save_if_held(other_uuid, projs, OtherProject, r.project_hashes,
                          other_file, check_hash)
    IN  [p |-> r.p,
         project_hashes |-> o.project_hashes,
         project_db |-> r.project_db,
         other_db |-> o.project_db,
         projects_db |-> File(get_data(projs, r.p)),
         written |-> r.written + o.written]

\* mutant: a project whose file is missing raises like a failed open
load_project_missing_raises(acc, project_id, listed, file) ==
    IF acc.err # NoError \/ project_id \notin listed THEN acc
    ELSE IF file = NoFile THEN [acc EXCEPT !.err = "FileNotFoundError"]
    ELSE IF ~is_valid(Read(file)) THEN [acc EXCEPT !.err = ValidationError]
    ELSE LET proj == load(Read(file))
         IN  [acc EXCEPT !.projects = @ \cup {project_id},
                         !.project_hashes = Put(@, project_id, get_data_hash(proj)),
                         !.loaded = @ \cup {project_id},
                         !.p = IF project_id = project_uuid THEN proj ELSE @]

\* one pass of the loop of load_projects: a project the index lists whose
\* file exists is loaded and its hash recorded, one whose file is missing
\* is passed over; a document that is rejected raises, which ends the loop
load_project(acc, project_id, listed, file) ==
    IF acc.err # NoError \/ project_id \notin listed \/ file = NoFile THEN acc
    ELSE IF ~is_valid(Read(file)) THEN [acc EXCEPT !.err = ValidationError]
    ELSE LET proj == load(Read(file))
         IN  [acc EXCEPT !.projects = @ \cup {project_id},
                         !.project_hashes = Put(@, project_id, get_data_hash(proj)),
                         !.loaded = @ \cup {project_id},
                         !.p = IF project_id = project_uuid THEN proj ELSE @]

\* load_projects over the index, in its order
load_projects(listed, projs, p, hashes, file, other_file) ==
    load_project(
        load_project([projects |-> projs, p |-> p, project_hashes |-> hashes,
                      loaded |-> {}, err |-> NoError],
                     project_ids[1], listed, file),
        project_ids[2], listed, other_file)

\* load_database: without an index file one is written from the projects
\* held; with one, load_projects
load_database(index, projs, p, hashes, file, other_file) ==
    IF index = NoFile
    THEN [projects |-> projs, p |-> p, project_hashes |-> hashes, loaded |-> {},
          err |-> NoError, projects_db |-> File(get_data(projs, p))]
    ELSE LET r == load_projects(DOMAIN Read(index).projects, projs, p, hashes,
                                file, other_file)
         IN  [projects |-> r.projects, p |-> r.p, project_hashes |-> r.project_hashes,
              loaded |-> r.loaded, err |-> r.err, projects_db |-> index]

(***************************************************************************)
(* The scheduler: heapq on event_heap, schedule, and the handler of a      *)
(* wake-up event.                                                          *)
(***************************************************************************)
wake_up == "wake_up"

\* Python's tuple order on (timestamp, event_uuid, event_type); the type is
\* the same string in every event
TupleLess(a, b) == a[1] < b[1] \/ (a[1] = b[1] /\ a[2] < b[2])

\* heapq._siftdown; positions count from 0 as in the source
RECURSIVE siftdown(_, _, _, _)
siftdown(heap, startpos, pos, newitem) ==
    LET parentpos == (pos - 1) \div 2
    IN  IF pos > startpos /\ TupleLess(newitem, heap[parentpos + 1])
        THEN siftdown([heap EXCEPT ![pos + 1] = heap[parentpos + 1]],
                      startpos, parentpos, newitem)
        ELSE [heap EXCEPT ![pos + 1] = newitem]

\* heapq._siftup: the smaller child moves up until a leaf is reached, then
\* the item sifts down from there
RECURSIVE siftup_walk(_, _)
siftup_walk(heap, pos) ==
    LET childpos == 2 * pos + 1
        rightpos == childpos + 1
        c == IF rightpos < Len(heap)
                /\ ~TupleLess(heap[childpos + 1], heap[rightpos + 1])
             THEN rightpos ELSE childpos
    IN  IF childpos < Len(heap)
        THEN siftup_walk([heap EXCEPT ![pos + 1] = heap[c + 1]], c)
        ELSE [heap |-> heap, pos |-> pos]

siftup(heap, pos) ==
    LET w == siftup_walk(heap, pos)
    IN  siftdown(w.heap, pos, w.pos, heap[pos + 1])

\* mutant: the new item is appended and not sifted towards the root
heappush_append(heap, item) == Append(heap, item)

heappush(heap, item) == siftdown(Append(heap, item), 0, Len(heap), item)

heappop(heap) ==
    LET lastelt == heap[Len(heap)]
        rest == SubSeq(heap, 1, Len(heap) - 1)
    IN  IF rest # <<>> THEN siftup([rest EXCEPT ![1] = lastelt], 0) ELSE rest

\* mutant: the handler looks the event up and resolves nothing
process_event_no_resolve(p, projs, emap, event_uuid, event_type, clock) ==
    IF event_type # wake_up THEN Return(p)
    ELSE IF event_uuid \notin DOMAIN emap THEN Raise(p, KeyError)
    ELSE Return(p)

\* mutant: an event whose project or task is gone is an error
process_event_stale_raises(p, projs, emap, event_uuid, event_type, clock) ==
    IF event_type # wake_up THEN Return(p)
    ELSE IF event_uuid \notin DOMAIN emap THEN Raise(p, KeyError)
    ELSE IF project_uuid \notin projs THEN Raise(p, KeyError)
    ELSE IF emap[event_uuid] \notin DOMAIN p.metadata THEN Raise(p, KeyError)
    ELSE resolve_dependency(p, emap[event_uuid], clock)

\* mutant: the event wakes its task whatever wake_after says
process_event_wakes(p, projs, emap, event_uuid, event_type, clock) ==
    IF event_type # wake_up THEN Return(p)
    ELSE IF event_uuid \notin DOMAIN emap THEN Raise(p, KeyError)
    ELSE IF project_uuid \notin projs THEN Return(p)
    ELSE IF emap[event_uuid] \notin DOMAIN p.metadata THEN Return(p)
    ELSE IF p.metadata[emap[event_uuid]].status = Snoozed
    THEN resolve_dependency(SetStatus(p, emap[event_uuid], Pending), emap[event_uuid], clock)
    ELSE resolve_dependency(p, emap[event_uuid], clock)

\* TaskGraphScheduler.__process_event; every event names the one project of
\* the model, projs is the key set of TaskGraph.projects
process_event(p, projs, emap, event_uuid, event_type, clock) ==
    IF event_type # wake_up THEN Return(p)
    ELSE IF event_uuid \notin DOMAIN emap THEN Raise(p, KeyError)
    ELSE IF project_uuid \notin projs THEN Return(p)
    ELSE IF emap[event_uuid] \notin DOMAIN p.metadata THEN Return(p)
    ELSE resolve_dependency(p, emap[event_uuid], clock)

\* mutant: the loop goes on while the heap holds an event, whatever the flag
loop_condition_ignores_flag(heap, running) == Len(heap) > 0

\* the condition of the inner loop of periodic_check
loop_condition(heap, running) == Len(heap) > 0 /\ running

\* mutant: the event is popped from the heap and stays in the side-table
fire_first_event_keeps_entry(p, projs, heap, emap, clock) ==
    LET first_event == heap[1]
        r == process_event(p, projs, emap, first_event[2], first_event[3], clock)
    IN  IF r.err # NoError
        THEN [p |-> r.p, err |-> r.err, event_heap |-> heap, event_map |-> emap]
        ELSE [p |-> r.p, err |-> NoError, event_heap |-> heappop(heap), event_map |-> emap]

\* mutant: the event is popped first and the handler runs afterwards
fire_first_event_pops_first(p, projs, heap, emap, clock) ==
    LET first_event == heap[1]
        r == process_event(p, projs, Pop(emap, first_event[2]),
                           first_event[2], first_event[3], clock)
    IN  [p |-> r.p, err |-> r.err,
         event_heap |-> heappop(heap), event_map |-> Pop(emap, first_event[2])]

\* the body of the inner loop on an event that is due: the handler runs,
\* and when it has returned the event leaves the heap and the side-table;
\* an exception of the handler leaves the statements after it undone
fire_first_event(p, projs, heap, emap, clock) ==
    LET first_event == heap[1]
        r == process_event(p, projs, emap, first_event[2], first_event[3], clock)
    IN  IF r.err # NoError
        THEN [p |-> r.p, err |-> r.err, event_heap |-> heap, event_map |-> emap]
        ELSE [p |-> r.p, err |-> NoError,
              event_heap |-> heappop(heap), event_map |-> Pop(emap, first_event[2])]

(***************************************************************************)
(* The state after construction: TaskGraphProject.__init__ with its root   *)
(* task, an empty scheduler whose loop has been started.                   *)
(***************************************************************************)
\* the record of a call: its name, the task it names, its other argument,
\* the id it created, the exception it raised, and the status the task it
\* names had before the call
Op(name, task, arg, new, err) ==
    [op |-> name, task |-> task, arg |-> arg, new |-> new, err |-> err,
     was |-> IF task \in DOMAIN metadata THEN metadata[task].status ELSE NoStatus]

Init ==
    /\ task_root = 1
    /\ dag_nodes = {1}
    /\ dag_edges = <<>>
    /\ metadata = [t \in {1} |-> root_item]
    /\ next_uuid = 2
    /\ now = 0
    /\ event_heap = <<>>
    /\ event_map = <<>>
    /\ loop_alive = TRUE
    /\ second_loop = FALSE
    /\ scheduler_running = TRUE
    /\ manager_running = TRUE
    /\ t_next_autosave = AutosavePeriod
    /\ nops = 0
    /\ lastOp = Op("init", None, None, None, NoError)
    /\ fired = {}
    /\ projects = {project_uuid}
    /\ project_hashes = <<>>
    /\ project_db = NoFile
    /\ other_db = NoFile
    /\ projects_db = NoFile
    /\ scheduler_db = NoFile

(***************************************************************************)
(* One action per call.  A call that raises keeps what it changed before   *)
(* the exception.                                                          *)
(***************************************************************************)
Called(r, name, task, arg, new) ==
    /\ nops < MaxOps
    /\ project_uuid \in projects
    /\ nops' = nops + 1
    /\ dag_nodes' = r.p.nodes
    /\ dag_edges' = r.p.edges
    /\ metadata' = r.p.metadata
    /\ lastOp' = Op(name, task, arg, new, r.err)
    /\ UNCHANGED <<task_root, now, event_heap, event_map, loopvars, fired,
                   projects, dbvars>>

AddSubTask(parent) ==
    /\ Called(add_sub_task(Project, parent, next_uuid), "add_sub_task", parent, None, next_uuid)
    /\ next_uuid' = next_uuid + 1

AddSuperTask(child) ==
    /\ Called(add_super_task(Project, child, next_uuid), "add_super_task", child, None, next_uuid)
    /\ next_uuid' = next_uuid + 1

AddDependency(task, dep) ==
    /\ Called(add_dependency(Project, task, dep), "add_dependency", task, dep, None)
    /\ UNCHANGED next_uuid

RemoveDependency(task, dep) ==
    /\ Called(remove_dependency(Project, task, dep, now), "remove_dependency", task, dep, None)
    /\ UNCHANGED next_uuid

\* lastOp.arg: how many successors the call captured before the removal
RemoveTask(task) ==
    /\ Called(remove_task(Project, task, now), "remove_task", task,
              Len(successors(Project, task)), None)
    /\ UNCHANGED next_uuid

TaskDone(task) ==
    /\ Called(task_done(Project, task, now), "task_done", task, None, None)
    /\ UNCHANGED next_uuid

TaskSnooze(task, until) ==
    /\ Called(task_snooze(Project, task, until), "task_snooze", task, until, None)
    /\ UNCHANGED next_uuid

ResolveDependency(task) ==
    /\ Called(resolve_dependency(Project, task, now), "resolve_dependency", task, None, None)
    /\ UNCHANGED next_uuid

ResolveAll ==
    /\ Called(resolve_all(Project, now), "resolve_all", None, None, None)
    /\ UNCHANGED next_uuid

\* the event ids uuid4 has handed out: those queued, fired or saved
used_event_uuids ==
    DOMAIN event_map \cup fired
        \cup (IF scheduler_db = NoFile THEN {} ELSE DOMAIN Read(scheduler_db).event_map)

\* TaskGraphScheduler.schedule: uuid4 gives the event any id not used before
Schedule(timestamp, task) ==
    /\ nops < MaxOps
    /\ \E event_uuid \in (1..MaxEvents) \ used_event_uuids :
          /\ event_heap' = heappush(event_heap, <<timestamp, event_uuid, wake_up>>)
          /\ event_map' = Put(event_map, event_uuid, task)
          /\ lastOp' = Op("schedule", task, timestamp, event_uuid, NoError)
    /\ nops' = nops + 1
    /\ UNCHANGED <<dag_nodes, dag_edges, metadata, task_root, next_uuid, now, loopvars,
                   fired, projects, dbvars>>

\* one pass of the inner loop of periodic_check on an event that is due; an
\* exception of the handler ends the coroutine
PeriodicCheck ==
    /\ loop_alive
    /\ loop_condition(event_heap, scheduler_running)
    /\ LET first_event == event_heap[1]
           r == fire_first_event(Project, projects, event_heap, event_map, now)
       IN  /\ now > first_event[1]
           /\ dag_nodes' = r.p.nodes
           /\ dag_edges' = r.p.edges
           /\ metadata' = r.p.metadata
           /\ lastOp' = Op("wake_up",
                           IF first_event[2] \in DOMAIN event_map
                           THEN event_map[first_event[2]] ELSE None,
                           first_event[1], first_event[2], r.err)
           /\ fired' = fired \cup {first_event[2]}
           /\ event_heap' = r.event_heap
           /\ event_map' = r.event_map
           /\ loop_alive' = (r.err = NoError)
    /\ UNCHANGED <<second_loop, scheduler_running, manager_running, t_next_autosave>>
    /\ UNCHANGED <<task_root, next_uuid, now, nops, projects, dbvars>>

\* the clock advances between two operations
Tick ==
    /\ now < MaxTime
    /\ now' = now + 1
    /\ lastOp' = Op("tick", None, None, None, NoError)
    /\ UNCHANGED <<dag_nodes, dag_edges, metadata, task_root, next_uuid,
                   event_heap, event_map, loopvars, nops, fired, projects, dbvars>>

ModifyTaskMetadata(task, status) ==
    /\ Called(modify_task_metadata(Project, task, status), "modify_task_metadata",
              task, None, None)
    /\ UNCHANGED next_uuid

\* the titles and the descriptions a caller gives an issue
Titles == {"title", "renamed"}
Descriptions == {NoText, Text("description")}

OpenIssue(task, title, description) ==
    /\ Called(task_open_issue(Project, task, title, description, next_uuid),
              "task_open_issue", task, None, next_uuid)
    /\ next_uuid' = next_uuid + 1

CloseIssue(task, issue) ==
    /\ Called(task_close_issue(Project, task, issue, now), "task_close_issue",
              task, issue, None)
    /\ UNCHANGED next_uuid

ModifyIssue(task, issue, title) ==
    /\ Called(task_modify_issue(Project, task, issue, title), "task_modify_issue",
              task, issue, None)
    /\ UNCHANGED next_uuid

ReopenIssue(task, issue) ==
    /\ Called(task_reopen_issue(Project, task, issue), "task_reopen_issue",
              task, issue, None)
    /\ UNCHANGED next_uuid

DeleteIssue(task, issue) ==
    /\ Called(task_delete_issue(Project, task, issue), "task_delete_issue",
              task, issue, None)
    /\ UNCHANGED next_uuid

RaiseIssue(task, issue) ==
    /\ Called(task_raise_issue(Project, task, issue, next_uuid), "task_raise_issue",
              task, issue, next_uuid)
    /\ next_uuid' = next_uuid + 1

\* TaskGraph.remove_project: the project leaves TaskGraph.projects; the
\* events that name it stay queued
RemoveProject ==
    /\ nops < MaxOps
    /\ project_uuid \in projects
    /\ projects' = projects \ {project_uuid}
    /\ nops' = nops + 1
    /\ lastOp' = Op("remove_project", None, None, None, NoError)
    /\ UNCHANGED <<dag_nodes, dag_edges, metadata, task_root, next_uuid, now,
                   event_heap, event_map, loopvars, fired, dbvars>>

\* TaskGraphScheduler.get_data: what serialize writes and load reads back
TaskGraphSchedulerData == [event_heap |-> event_heap, event_map |-> event_map]

\* save_scheduler_database: scheduler.json holds the queue as it is now
SaveSchedulerDatabase ==
    /\ nops < MaxOps
    /\ scheduler_db' = File(TaskGraphSchedulerData)
    /\ nops' = nops + 1
    /\ lastOp' = Op("save_scheduler_database", None, None, None, NoError)
    /\ UNCHANGED <<dag_nodes, dag_edges, metadata, task_root, next_uuid, now,
                   event_heap, event_map, loopvars, fired, projects,
                   project_hashes, project_db, other_db, projects_db>>

\* load_scheduler_database: TaskGraphScheduler.load replaces the queue by
\* the saved one; without a file one is written from the queue as it is
LoadSchedulerDatabase ==
    /\ nops < MaxOps
    /\ IF scheduler_db # NoFile
       THEN /\ event_heap' = Read(scheduler_db).event_heap
            /\ event_map' = Read(scheduler_db).event_map
            /\ UNCHANGED scheduler_db
       ELSE /\ scheduler_db' = File(TaskGraphSchedulerData)
            /\ UNCHANGED <<event_heap, event_map>>
    /\ nops' = nops + 1
    /\ lastOp' = Op("load_scheduler_database", None, None, None, NoError)
    /\ UNCHANGED <<dag_nodes, dag_edges, metadata, task_root, next_uuid, now,
                   loopvars, fired, projects,
                   project_hashes, project_db, other_db, projects_db>>

\* the state save_database leaves: purge_metadata has run on every project
\* written, the files and the hash table are those of r
Saved(r) ==
    /\ metadata' = r.p.metadata
    /\ project_hashes' = r.project_hashes
    /\ project_db' = r.project_db
    /\ other_db' = r.other_db
    /\ projects_db' = r.projects_db
    /\ UNCHANGED <<dag_nodes, dag_edges, task_root, next_uuid, now, event_heap,
                   event_map, fired, projects, scheduler_db>>

\* save_database called by the application: lastOp.arg is 1 for
\* check_hash=True and 0 for False, lastOp.new is the number of project
\* files written
SaveDatabase(check_hash) ==
    /\ nops < MaxOps
    /\ LET r == save_database(projects, Project, project_hashes, project_db, other_db,
                              check_hash)
       IN  /\ Saved(r)
           /\ lastOp' = Op("save_database", None, IF check_hash THEN 1 ELSE 0,
                           r.written, NoError)
    /\ nops' = nops + 1
    /\ UNCHANGED loopvars

\* one pass of the manager's periodic_check after the autosave time:
\* save_database(check_hash=True), and the next autosave is set
Autosave ==
    /\ manager_running
    /\ now > t_next_autosave
    /\ LET r == save_database(projects, Project, project_hashes, project_db, other_db,
                              TRUE)
       IN  /\ Saved(r)
           /\ lastOp' = Op("autosave", None, 1, r.written, NoError)
    /\ t_next_autosave' = t_next_autosave + AutosavePeriod
    /\ UNCHANGED <<loop_alive, second_loop, scheduler_running, manager_running, nops>>

\* the state load_database leaves; a project that was loaded is a fresh
\* TaskGraphProject, which has made itself a root of its own before load
\* replaced its graph and its metadata
Loaded(r) ==
    /\ dag_nodes' = r.p.nodes
    /\ dag_edges' = r.p.edges
    /\ metadata' = r.p.metadata
    /\ projects' = r.projects
    /\ project_hashes' = r.project_hashes
    /\ projects_db' = r.projects_db
    /\ IF project_uuid \in r.loaded
       THEN task_root' = next_uuid /\ next_uuid' = next_uuid + 1
       ELSE UNCHANGED <<task_root, next_uuid>>
    /\ UNCHANGED <<now, fired, project_db, other_db>>

\* load_database called on the manager as it is; lastOp.new is the number
\* of projects loaded
LoadDatabase ==
    /\ nops < MaxOps
    /\ nops' = nops + 1
    /\ LET r == load_database(projects_db, projects, Project, project_hashes,
                              project_db, other_db)
       IN  /\ Loaded(r)
           /\ lastOp' = Op("load_database", None, None, Cardinality(r.loaded), r.err)
    /\ UNCHANGED <<event_heap, event_map, loopvars, scheduler_db>>

\* the create-project request: TaskGraph.new_project, then save_project of
\* the new project; the index is not written
NewProject ==
    /\ nops < MaxOps
    /\ other_uuid \notin projects
    /\ other_db = NoFile
    /\ other_uuid \notin DOMAIN project_hashes
    /\ LET r == save_project(other_uuid, OtherProject, project_hashes, other_db, FALSE)
       IN  /\ projects' = projects \cup {other_uuid}
           /\ project_hashes' = r.project_hashes
           /\ other_db' = r.project_db
    /\ nops' = nops + 1
    /\ lastOp' = Op("new_project", None, None, None, NoError)
    /\ UNCHANGED <<dag_nodes, dag_edges, metadata, task_root, next_uuid, now,
                   event_heap, event_map, loopvars, fired,
                   project_db, projects_db, scheduler_db>>

\* the delete-project request, TaskGraphDatabaseManager.delete_project: the
\* project leaves the TaskGraph and its file is removed; the index and the
\* hash table are left as they are; lastOp.arg is 1 for the project, 2 for
\* the second project
DeleteProject(project_id) ==
    /\ nops < MaxOps
    /\ project_id \in projects
    /\ projects' = projects \ {project_id}
    /\ IF project_id = project_uuid
       THEN project_db' = NoFile /\ UNCHANGED other_db
       ELSE other_db' = NoFile /\ UNCHANGED project_db
    /\ nops' = nops + 1
    /\ lastOp' = Op("delete_project", None, IF project_id = project_uuid THEN 1 ELSE 2,
                    None, NoError)
    /\ UNCHANGED <<dag_nodes, dag_edges, metadata, task_root, next_uuid, now,
                   event_heap, event_map, loopvars, fired,
                   project_hashes, projects_db, scheduler_db>>

\* a project file is left malformed: a write of it was cut short when the
\* process was killed, or the file was edited by hand
Corrupt(project_id) ==
    /\ IF project_id = project_uuid
       THEN /\ project_db \notin {NoFile, File(Malformed)}
            /\ project_db' = File(Malformed)
            /\ UNCHANGED other_db
       ELSE /\ other_db \notin {NoFile, File(Malformed)}
            /\ other_db' = File(Malformed)
            /\ UNCHANGED project_db
    /\ lastOp' = Op("corrupt", None, IF project_id = project_uuid THEN 1 ELSE 2,
                    None, NoError)
    /\ UNCHANGED <<dag_nodes, dag_edges, metadata, task_root, next_uuid, now,
                   event_heap, event_map, loopvars, nops, fired, projects,
                   project_hashes, projects_db, scheduler_db>>

\* the project a TaskGraph that does not hold it has nothing of
NoProject == [nodes |-> {}, edges |-> <<>>, metadata |-> <<>>]

\* the process ends without its shutdown sequence (it is killed) and is
\* started again: a TaskGraph, a scheduler and a manager are constructed
\* and the start sequence of lifespan runs: load_database,
\* load_scheduler_database, start_scheduler of both.  An exception of
\* load_database ends the start sequence.  lastOp.new is the number of
\* projects loaded
Restart ==
    /\ nops < MaxOps
    /\ nops' = nops + 1
    /\ LET r == load_database(projects_db, {}, NoProject, <<>>, project_db, other_db)
       IN  /\ Loaded(r)
           /\ lastOp' = Op("restart", None, None, Cardinality(r.loaded), r.err)
           /\ IF r.err # NoError
              THEN /\ event_heap' = <<>>
                   /\ event_map' = <<>>
                   /\ loop_alive' = FALSE
                   /\ second_loop' = FALSE
                   /\ scheduler_running' = FALSE
                   /\ manager_running' = FALSE
                   /\ UNCHANGED <<scheduler_db, t_next_autosave>>
              ELSE /\ IF scheduler_db # NoFile
                      THEN /\ event_heap' = Read(scheduler_db).event_heap
                           /\ event_map' = Read(scheduler_db).event_map
                           /\ UNCHANGED scheduler_db
                      ELSE /\ event_heap' = <<>>
                           /\ event_map' = <<>>
                           /\ scheduler_db' = File([event_heap |-> <<>>, event_map |-> <<>>])
                   /\ loop_alive' = TRUE
                   /\ second_loop' = FALSE
                   /\ scheduler_running' = TRUE
                   /\ manager_running' = TRUE
                   /\ t_next_autosave' = now + AutosavePeriod

\* mutant: the shutdown sequence leaves scheduler.json as it was
shutdown_without_queue(projs, p, heap, emap, hashes, file, other_file, queue_file) ==
    [manager_running |-> FALSE,
     scheduler_running |-> FALSE,
     scheduler_db |-> queue_file,
     saved |-> save_database(projs, p, hashes, file, other_file, FALSE)]

\* the shutdown sequence of lifespan, four calls with no await between
\* them: stop_scheduler of the manager and of the scheduler,
\* save_scheduler_database, save_database(check_hash=False); the flags and
\* the files it leaves
shutdown(projs, p, heap, emap, hashes, file, other_file, queue_file) ==
    [manager_running |-> FALSE,
     scheduler_running |-> FALSE,
     scheduler_db |-> File([event_heap |-> heap, event_map |-> emap]),
     saved |-> save_database(projs, p, hashes, file, other_file, FALSE)]

\* the process shuts down: the part of lifespan after its yield, which the
\* event loop runs as one piece; lastOp.new is the number of project files
\* written
Shutdown ==
    /\ LET r == shutdown(projects, Project, event_heap, event_map, project_hashes,
                         project_db, other_db, scheduler_db)
       IN  /\ manager_running' = r.manager_running
           /\ scheduler_running' = r.scheduler_running
           /\ scheduler_db' = r.scheduler_db
           /\ metadata' = r.saved.p.metadata
           /\ project_hashes' = r.saved.project_hashes
           /\ project_db' = r.saved.project_db
           /\ other_db' = r.saved.other_db
           /\ projects_db' = r.saved.projects_db
           /\ lastOp' = Op("shutdown", None, 0, r.saved.written, NoError)
    /\ UNCHANGED <<dag_nodes, dag_edges, task_root, next_uuid, now, event_heap,
                   event_map, loop_alive, second_loop, t_next_autosave, nops, fired,
                   projects>>

\* the process is up: it has not shut down, or it has been started since
Up == lastOp.op # "shutdown"

\* TaskGraphScheduler.stop_scheduler
StopScheduler ==
    /\ nops < MaxOps
    /\ scheduler_running' = FALSE
    /\ nops' = nops + 1
    /\ lastOp' = Op("stop_scheduler", None, None, None, NoError)
    /\ UNCHANGED <<dag_nodes, dag_edges, metadata, task_root, next_uuid, now,
                   event_heap, event_map, loop_alive, second_loop, manager_running,
                   t_next_autosave,
                   fired, projects, dbvars>>

\* TaskGraphDatabaseManager.stop_scheduler
StopManager ==
    /\ nops < MaxOps
    /\ manager_running' = FALSE
    /\ nops' = nops + 1
    /\ lastOp' = Op("stop_manager", None, None, None, NoError)
    /\ UNCHANGED <<dag_nodes, dag_edges, metadata, task_root, next_uuid, now,
                   event_heap, event_map, loop_alive, second_loop, scheduler_running,
                   t_next_autosave,
                   fired, projects, dbvars>>

\* the scheduler's periodic_check wakes from its sleep, finds the flag
\* down and returns
PeriodicCheckExit ==
    /\ loop_alive
    /\ ~scheduler_running
    /\ loop_alive' = FALSE
    /\ lastOp' = Op("exit", None, None, None, NoError)
    /\ UNCHANGED <<dag_nodes, dag_edges, metadata, task_root, next_uuid, now,
                   event_heap, event_map, second_loop, scheduler_running,
                   manager_running, t_next_autosave, nops, fired, projects, dbvars>>

\* TaskGraphScheduler.start_scheduler: the flag goes up and a
\* periodic_check coroutine is created, whether or not an earlier one is
\* still alive; the model follows two coroutines, so the call is made
\* while at most one is alive
StartScheduler ==
    /\ nops < MaxOps
    /\ ~loop_alive \/ ~second_loop
    /\ scheduler_running' = TRUE
    /\ IF ~loop_alive
       THEN loop_alive' = TRUE /\ UNCHANGED second_loop
       ELSE second_loop' = TRUE /\ UNCHANGED loop_alive
    /\ nops' = nops + 1
    /\ lastOp' = Op("start_scheduler", None, None, None, NoError)
    /\ UNCHANGED <<dag_nodes, dag_edges, metadata, task_root, next_uuid, now,
                   event_heap, event_map, manager_running, t_next_autosave,
                   fired, projects, dbvars>>

\* one pass of the inner loop of the second coroutine on an event that is
\* due; between two sleeps a coroutine runs alone
SecondPeriodicCheck ==
    /\ second_loop
    /\ loop_condition(event_heap, scheduler_running)
    /\ LET first_event == event_heap[1]
           r == fire_first_event(Project, projects, event_heap, event_map, now)
       IN  /\ now > first_event[1]
           /\ dag_nodes' = r.p.nodes
           /\ dag_edges' = r.p.edges
           /\ metadata' = r.p.metadata
           /\ lastOp' = Op("wake_up",
                           IF first_event[2] \in DOMAIN event_map
                           THEN event_map[first_event[2]] ELSE None,
                           first_event[1], first_event[2], r.err)
           /\ fired' = fired \cup {first_event[2]}
           /\ event_heap' = r.event_heap
           /\ event_map' = r.event_map
           /\ second_loop' = (r.err = NoError)
    /\ UNCHANGED <<loop_alive, scheduler_running, manager_running, t_next_autosave>>
    /\ UNCHANGED <<task_root, next_uuid, now, nops, projects, dbvars>>

\* the second coroutine wakes from its sleep, finds the flag down and
\* returns
SecondPeriodicCheckExit ==
    /\ second_loop
    /\ ~scheduler_running
    /\ second_loop' = FALSE
    /\ lastOp' = Op("exit", None, None, None, NoError)
    /\ UNCHANGED <<dag_nodes, dag_edges, metadata, task_root, next_uuid, now,
                   event_heap, event_map, loop_alive, scheduler_running,
                   manager_running, t_next_autosave, nops, fired, projects, dbvars>>

(***************************************************************************)
(* Spec: the engine called with ids of tasks the project holds.            *)
(***************************************************************************)
Tasks == DOMAIN metadata
Times == 0..MaxTime

Next ==
    \/ \E t \in Tasks : AddSubTask(t)
    \/ \E t \in Tasks : AddSuperTask(t)
    \/ \E t \in Tasks, d \in Tasks : AddDependency(t, d)
    \/ \E e \in Range(dag_edges) : RemoveDependency(e[2], e[1])
    \/ \E t \in Tasks : RemoveTask(t)
    \/ \E t \in Tasks : TaskDone(t)
    \/ \E t \in Tasks, u \in Times : TaskSnooze(t, u)
    \/ \E t \in Tasks : ResolveDependency(t)
    \/ ResolveAll
    \/ \E t \in Tasks, u \in Times : Schedule(u, t)
    \/ PeriodicCheck
    \/ Tick

Spec == Init /\ [][Next]_vars

(***************************************************************************)
(* SpecAnyId: the engine called with any id, also ids that name no task    *)
(* (an id never handed out, or the id of a removed task).                  *)
(***************************************************************************)
AnyIds == {UnknownId} \cup (1..(next_uuid - 1))

NextAnyId ==
    \/ \E t \in AnyIds : AddSubTask(t)
    \/ \E t \in AnyIds : AddSuperTask(t)
    \/ \E t \in AnyIds, d \in AnyIds : AddDependency(t, d)
    \/ \E t \in AnyIds, d \in AnyIds : RemoveDependency(t, d)
    \/ \E t \in AnyIds : RemoveTask(t)
    \/ \E t \in AnyIds : TaskDone(t)
    \/ \E t \in AnyIds, u \in Times : TaskSnooze(t, u)
    \/ \E t \in AnyIds : ResolveDependency(t)
    \/ Tick

SpecAnyId == Init /\ [][NextAnyId]_vars

(***************************************************************************)
(* SpecApi: the project's methods called directly, with any id: the issue  *)
(* operations, modify_task_metadata, and the calls that can leave a node   *)
(* or a status behind that the other specifications never show.           *)
(***************************************************************************)
NextApi ==
    \/ \E t \in Tasks : AddSubTask(t)
    \/ \E t \in Tasks, d \in AnyIds : AddDependency(t, d)
    \/ \E t \in AnyIds : RemoveTask(t)
    \/ \E t \in AnyIds, status \in TaskStatus : ModifyTaskMetadata(t, status)
    \/ \E t \in AnyIds : ResolveDependency(t)
    \/ \E t \in AnyIds, title \in Titles, description \in Descriptions :
          OpenIssue(t, title, description)
    \/ \E t \in AnyIds, i \in AnyIds : CloseIssue(t, i)
    \/ \E t \in AnyIds, i \in AnyIds, title \in Titles : ModifyIssue(t, i, title)
    \/ \E t \in AnyIds, i \in AnyIds : ReopenIssue(t, i)
    \/ \E t \in AnyIds, i \in AnyIds : DeleteIssue(t, i)
    \/ \E t \in AnyIds, i \in AnyIds : RaiseIssue(t, i)

SpecApi == Init /\ [][NextApi]_vars

(***************************************************************************)
(* SpecSched: the scheduler at work while tasks and the project come and   *)
(* go and the queue is saved and loaded.                                   *)
(***************************************************************************)
NextSched ==
    \/ \E t \in Tasks : AddSubTask(t)
    \/ \E t \in Tasks : RemoveTask(t)
    \/ \E t \in Tasks, u \in Times : TaskSnooze(t, u)
    \/ \E t \in Tasks, u \in Times : Schedule(u, t)
    \/ RemoveProject
    \/ SaveSchedulerDatabase
    \/ LoadSchedulerDatabase
    \/ PeriodicCheck
    \/ Tick

SpecSched == Init /\ [][NextSched]_vars

(***************************************************************************)
(* SpecDb: the project mutated, saved behind the hash gate and loaded.     *)
(***************************************************************************)
NextDb ==
    \/ \E t \in Tasks : AddSubTask(t)
    \/ \E t \in Tasks, d \in Tasks : AddDependency(t, d)
    \/ \E t \in Tasks : RemoveTask(t)
    \/ \E t \in Tasks : TaskDone(t)
    \/ \E t \in Tasks, u \in Times : TaskSnooze(t, u)
    \/ \E t \in Tasks, description \in Descriptions : OpenIssue(t, "title", description)
    \/ \E check_hash \in BOOLEAN : SaveDatabase(check_hash)
    \/ LoadDatabase
    \/ Tick

SpecDb == Init /\ [][NextDb]_vars

(***************************************************************************)
(* SpecLive: Spec with the clock running and the periodic_check coroutine  *)
(* scheduled again and again by the event loop.                            *)
(***************************************************************************)
SpecLive == Init /\ [][Next]_vars /\ WF_vars(PeriodicCheck) /\ WF_vars(Tick)

(***************************************************************************)
(* SpecLoop: the two periodic_check loops at work, stopped by their flags, *)
(* while tasks are snoozed, their wake-ups scheduled and the queue saved;  *)
(* modify_task_metadata can leave a task Snoozed without a wake time.      *)
(***************************************************************************)
NextLoop ==
    \/ \E t \in Tasks : AddSubTask(t)
    \/ \E t \in Tasks, u \in Times : TaskSnooze(t, u)
    \/ \E t \in Tasks, status \in TaskStatus : ModifyTaskMetadata(t, status)
    \/ \E t \in Tasks, u \in Times : Schedule(u, t)
    \/ PeriodicCheck
    \/ PeriodicCheckExit
    \/ Autosave
    \/ SaveSchedulerDatabase
    \/ StopScheduler
    \/ StopManager
    \/ Tick

SpecLoop == Init /\ [][NextLoop]_vars

(***************************************************************************)
(* SpecBoot: projects are created, mutated, saved and deleted, and the     *)
(* process is killed and started again; every file is as the program       *)
(* wrote it.                                                               *)
(***************************************************************************)
NextBoot ==
    \/ \E t \in Tasks : AddSubTask(t)
    \/ \E t \in Tasks : TaskDone(t)
    \/ NewProject
    \/ \E id \in projects : DeleteProject(id)
    \/ \E check_hash \in BOOLEAN : SaveDatabase(check_hash)
    \/ LoadDatabase
    \/ Restart

SpecBoot == Init /\ [][NextBoot]_vars

(***************************************************************************)
(* SpecTorn: SpecBoot where a project file can also be left malformed.     *)
(***************************************************************************)
NextTorn ==
    \/ \E t \in Tasks : AddSubTask(t)
    \/ \E t \in Tasks : TaskDone(t)
    \/ NewProject
    \/ \E id \in projects : DeleteProject(id)
    \/ \E check_hash \in BOOLEAN : SaveDatabase(check_hash)
    \/ LoadDatabase
    \/ Restart
    \/ \E id \in {project_uuid, other_uuid} : Corrupt(id)

SpecTorn == Init /\ [][NextTorn]_vars

(***************************************************************************)
(* SpecStop: one process after the other: tasks are snoozed, their         *)
(* wake-ups scheduled and fired and the projects autosaved while the       *)
(* process is up; it shuts down by its shutdown sequence and is started    *)
(* again.                                                                  *)
(***************************************************************************)
NextStop ==
    \/ Up /\ \E t \in Tasks : AddSubTask(t)
    \/ Up /\ \E t \in Tasks, u \in Times : TaskSnooze(t, u)
    \/ Up /\ \E t \in Tasks, u \in Times : Schedule(u, t)
    \/ Up /\ PeriodicCheck
    \/ Up /\ Autosave
    \/ Up /\ Tick
    \/ Up /\ Shutdown
    \/ ~Up /\ Restart

SpecStop == Init /\ [][NextStop]_vars

(***************************************************************************)
(* SpecStart: the scheduler started again while a periodic_check coroutine *)
(* may still be alive, and stopped; wake-ups are scheduled and fired by    *)
(* whichever coroutine runs; modify_task_metadata can leave a task Snoozed *)
(* without a wake time.                                                    *)
(***************************************************************************)
NextStart ==
    \/ \E t \in Tasks, u \in Times : TaskSnooze(t, u)
    \/ \E t \in Tasks, status \in TaskStatus : ModifyTaskMetadata(t, status)
    \/ \E t \in Tasks, u \in Times : Schedule(u, t)
    \/ StartScheduler
    \/ StopScheduler
    \/ PeriodicCheck
    \/ SecondPeriodicCheck
    \/ PeriodicCheckExit
    \/ SecondPeriodicCheckExit
    \/ Tick

SpecStart == Init /\ [][NextStart]_vars

(***************************************************************************)
(* What the claims speak of, stated on the graph and the metadata as sets  *)
(* and not through the engine's own loops.                                 *)
(***************************************************************************)
PredSet(es, t) == {e[1] : e \in {x \in Range(es) : x[2] = t}}
SuccSet(es, t) == {e[2] : e \in {x \in Range(es) : x[1] = t}}

AllPredsDone(es, md, t) ==
    \A d \in PredSet(es, t) : d \in DOMAIN md /\ md[d].status = Done

\* rule 4 of the ladder
Rule4(es, md, t) == IF AllPredsDone(es, md, t) THEN Active ELSE Pending

\* rule 3 keeps the task as it is
StillSnoozed(md, t, clock) == md[t].status = Snoozed /\ clock <= md[t].wake_after

GraphUnchanged == dag_nodes' = dag_nodes /\ dag_edges' = dag_edges
QueueUnchanged == event_heap' = event_heap /\ event_map' = event_map

(***************************************************************************)
(* C1.  After a full resolution pass (resolve_dependency on every task)    *)
(* that follows any sequence of mutations, every task has one of the four  *)
(* statuses, and every task that is neither Done nor Snoozed with          *)
(* now <= wake_after is Active if all its direct predecessors are Done     *)
(* and Pending otherwise.                                                  *)
(***************************************************************************)
C1_ResolvedPassConsistent ==
    lastOp.op = "resolve_all" =>
        \A t \in DOMAIN metadata :
            /\ metadata[t].status \in TaskStatus
            /\ (metadata[t].status # Done /\ ~StillSnoozed(metadata, t, now))
                  => metadata[t].status = Rule4(dag_edges, metadata, t)

\* the pass has woken a task whose snooze had expired (three calls: create,
\* snooze, pass) and has left the task that waits for it Pending
C1_Witness ==
    /\ lastOp.op = "resolve_all"
    /\ nops = 3
    /\ \E t \in DOMAIN metadata :
          /\ metadata[t].status = Pending
          /\ \E d \in PredSet(dag_edges, t) :
                /\ metadata[d].status = Active
                /\ metadata[d].wake_after # None
                /\ now > metadata[d].wake_after

(***************************************************************************)
(* C2.  Done is sticky: a task that is Done is still Done after every      *)
(* step in which it is not removed.                                        *)
(***************************************************************************)
C2_DoneIsSticky ==
    [][\A t \in DOMAIN metadata :
          (metadata[t].status = Done /\ t \in DOMAIN metadata')
              => metadata'[t].status = Done]_vars

(***************************************************************************)
(* C3.  resolve_dependency on an existing task that is neither Done nor    *)
(* Snoozed sets its status to Active when every direct predecessor is      *)
(* Done (none at all included) and to Pending otherwise, and changes       *)
(* nothing else: no other task, no other field, no edge, no node.          *)
(***************************************************************************)
C3_ResolveRule4 ==
    [][(/\ lastOp'.op = "resolve_dependency"
        /\ lastOp'.task \in DOMAIN metadata
        /\ metadata[lastOp'.task].status \notin {Done, Snoozed})
       => (/\ metadata' = [metadata EXCEPT ![lastOp'.task].status =
                                Rule4(dag_edges, metadata, lastOp'.task)]
           /\ lastOp'.err = NoError
           /\ GraphUnchanged
           /\ QueueUnchanged)]_vars

\* a direct call has turned a Pending task that has predecessors Active
C3_Witness ==
    /\ lastOp.op = "resolve_dependency"
    /\ lastOp.was = Pending
    /\ metadata[lastOp.task].status = Active
    /\ PredSet(dag_edges, lastOp.task) # {}

(***************************************************************************)
(* C4.  Resolving a Snoozed task, by a direct call or by a fired wake-up   *)
(* event, changes nothing while now <= wake_after (equality included);     *)
(* once now > wake_after it sets the status to Active if every direct      *)
(* predecessor is Done and to Pending otherwise.                           *)
(***************************************************************************)
C4_SnoozedUntilWakeAfter ==
    [][(/\ lastOp'.op \in {"resolve_dependency", "wake_up"}
        /\ lastOp'.task \in DOMAIN metadata
        /\ metadata[lastOp'.task].status = Snoozed)
       => (/\ GraphUnchanged
           /\ lastOp'.err = NoError
           /\ IF now <= metadata[lastOp'.task].wake_after
              THEN metadata' = metadata
              ELSE metadata' = [metadata EXCEPT ![lastOp'.task].status =
                                    Rule4(dag_edges, metadata, lastOp'.task)])]_vars

\* the scheduler has fired a wake-up event after wake_after and the task,
\* which still waits for a predecessor, went from Snoozed to Pending
C4_Witness ==
    /\ lastOp.op = "wake_up"
    /\ lastOp.was = Snoozed
    /\ metadata[lastOp.task].status = Pending
    /\ now > metadata[lastOp.task].wake_after

(***************************************************************************)
(* C5.  Immediately after task_done(t), t is Done with a completion        *)
(* timestamp, and no direct successor of t is Pending while all of that    *)
(* successor's direct predecessors are Done.                               *)
(***************************************************************************)
C5_DoneResolvesSuccessors ==
    lastOp.op = "task_done" =>
        /\ lastOp.err = NoError
        /\ metadata[lastOp.task].status = Done
        /\ metadata[lastOp.task].time_done = now
        /\ \A s \in SuccSet(dag_edges, lastOp.task) :
              ~(metadata[s].status = Pending /\ AllPredsDone(dag_edges, metadata, s))

\* after one task was created, task_done has run on a task whose successor
\* was Pending (a created task or the parent of one is) and is now Active
C5_Witness ==
    /\ lastOp.op = "task_done"
    /\ nops = 2
    /\ next_uuid = 3
    /\ \E s \in SuccSet(dag_edges, lastOp.task) :
          /\ metadata[s].status = Active
          /\ PredSet(dag_edges, s) = {lastOp.task}

(***************************************************************************)
(* C6.  add_sub_task(parent) on an existing parent creates a fresh task    *)
(* that is Active and has no predecessors, adds the edge new -> parent     *)
(* and leaves parent Pending; when that sub-task is marked Done next and   *)
(* parent has no other predecessor that is not Done, parent becomes        *)
(* Active.                                                                 *)
(***************************************************************************)
C6_SubTaskThenDone ==
    [][/\ (lastOp'.op = "add_sub_task" /\ lastOp'.task \in DOMAIN metadata)
          => (/\ lastOp'.new \notin DOMAIN metadata
              /\ lastOp'.new \notin dag_nodes
              /\ lastOp'.new \in DOMAIN metadata'
              /\ lastOp'.new \in dag_nodes'
              /\ metadata'[lastOp'.new].status = Active
              /\ PredSet(dag_edges', lastOp'.new) = {}
              /\ <<lastOp'.new, lastOp'.task>> \in Range(dag_edges')
              /\ metadata'[lastOp'.task].status = Pending)
       /\ (/\ lastOp.op = "add_sub_task"
           /\ lastOp'.op = "task_done"
           /\ lastOp'.task = lastOp.new
           /\ \A d \in PredSet(dag_edges, lastOp.task) \ {lastOp.new} :
                 metadata[d].status = Done)
          => metadata'[lastOp.task].status = Active]_vars

\* scenario A: add_sub_task(root) and then task_done on the new task (two
\* calls, the edge 2 -> 1 tells add_sub_task from add_super_task) leave the
\* root Active
C6_Witness ==
    /\ lastOp.op = "task_done"
    /\ lastOp.task = 2
    /\ nops = 2
    /\ <<2, task_root>> \in Range(dag_edges)
    /\ metadata[task_root].status = Active
    /\ metadata[2].status = Done

(***************************************************************************)
(* C7.  remove_task(t) on an existing task deletes t's node, every edge    *)
(* touching t and t's metadata, and re-resolves every former direct        *)
(* successor of t: one that is neither Done nor still Snoozed ends Active  *)
(* if all its remaining direct predecessors are Done (so also if it        *)
(* depended on t alone) and Pending otherwise.                             *)
(***************************************************************************)
C7_RemoveTaskResolvesSuccessors ==
    [][(lastOp'.op = "remove_task" /\ lastOp'.task \in DOMAIN metadata)
       => (/\ lastOp'.err = NoError
           /\ dag_nodes' = dag_nodes \ {lastOp'.task}
           /\ Range(dag_edges') =
                 {e \in Range(dag_edges) : e[1] # lastOp'.task /\ e[2] # lastOp'.task}
           /\ DOMAIN metadata' = (DOMAIN metadata) \ {lastOp'.task}
           /\ \A s \in SuccSet(dag_edges, lastOp'.task) \ {lastOp'.task} :
                 IF metadata[s].status = Done \/ StillSnoozed(metadata, s, now)
                 THEN metadata'[s] = metadata[s]
                 ELSE metadata'[s].status = Rule4(dag_edges', metadata', s))]_vars

\* scenario C: the removed task had two successors (lastOp.arg) that
\* depended on it alone, and both are Active
C7_Witness ==
    /\ lastOp.op = "remove_task"
    /\ lastOp.arg = 2
    /\ nops = 3
    /\ \A s \in DOMAIN metadata :
          metadata[s].status = Active /\ PredSet(dag_edges, s) = {}
    /\ Cardinality(DOMAIN metadata) = 2

C9_SnoozeFrame ==
    [][(lastOp'.op = "task_snooze")
       => (/\ lastOp'.err = NoError
           /\ metadata' = [metadata EXCEPT ![lastOp'.task].status = Snoozed,
                                           ![lastOp'.task].wake_after = lastOp'.arg]
           /\ GraphUnchanged
           /\ QueueUnchanged)]_vars

\* a Done task has been snoozed while the queue holds no event
C9_Witness ==
    /\ lastOp.op = "task_snooze"
    /\ lastOp.was = Done
    /\ metadata[lastOp.task].status = Snoozed
    /\ metadata[lastOp.task].wake_after = lastOp.arg
    /\ event_heap = <<>>

(***************************************************************************)
(* C10.  In every reachable state, also after calls with ids that name no  *)
(* task, the set of DAG nodes equals the key set of the metadata mapping.  *)
(***************************************************************************)
C10_NodesAreMetadataKeys == dag_nodes = DOMAIN metadata

(***************************************************************************)
(* The event at the head of the heap, the task it names, and the events    *)
(* of the queue as a set.                                                  *)
(***************************************************************************)
HeadEvent == event_heap[1]
HeadTask == event_map[HeadEvent[2]]
Queued(heap) == Range(heap)

\* the event the step fires names a task or a project that is gone
StaleHead == HeadTask \notin DOMAIN metadata \/ project_uuid \notin projects

(***************************************************************************)
(* C11.  When a due wake-up event names a task that was removed, or a      *)
(* project that was removed, after the event was scheduled, the tick       *)
(* raises no error, changes no project or task state, still removes the    *)
(* event from the heap and from the side-table, and goes on to the events  *)
(* that follow: they stay queued and the loop stays alive.                 *)
(***************************************************************************)
C11_StaleEventConsumed ==
    [][(PeriodicCheck /\ StaleHead)
       => (/\ lastOp'.err = NoError
           /\ GraphUnchanged
           /\ metadata' = metadata
           /\ projects' = projects
           /\ Queued(event_heap') = Queued(event_heap) \ {HeadEvent}
           /\ Len(event_heap') = Len(event_heap) - 1
           /\ event_map' = Pop(event_map, HeadEvent[2])
           /\ loop_alive')]_vars

\* the tick has fired an event whose task had been removed, the event is
\* gone from both structures and another event is still queued
C11_Witness ==
    /\ lastOp.op = "wake_up"
    /\ lastOp.err = NoError
    /\ lastOp.task \notin DOMAIN metadata
    /\ project_uuid \in projects
    /\ lastOp.new \notin DOMAIN event_map
    /\ Len(event_heap) = 1
    /\ loop_alive

(***************************************************************************)
(* C12.  Every scheduled event is fired at most once: the tick never       *)
(* invokes the handler of an event whose handler has been invoked before,  *)
(* whatever interleaving of schedule calls, ticks and scheduler save/load  *)
(* occurs.                                                                 *)
(***************************************************************************)
C12_FiredAtMostOnce ==
    [][PeriodicCheck => HeadEvent[2] \notin fired]_vars

\* the head of the heap is the least of the queued events by (timestamp, id)
HeadIsMinimal ==
    \A e \in Queued(event_heap) : e = HeadEvent \/ TupleLess(HeadEvent, e)

(***************************************************************************)
(* C13.  The tick always takes the event that is least by (timestamp,      *)
(* event id), fires it when its timestamp <= now, equality included, and   *)
(* stops at the first least event whose timestamp is still in the future;  *)
(* no event is fired while now is smaller than its timestamp.  As claimed: *)
(* a live loop with a least event of timestamp <= now can fire it.         *)
(***************************************************************************)
C13_FiresWhenDue_AsClaimed ==
    (loop_alive /\ Len(event_heap) > 0 /\ HeadEvent[1] <= now)
        => ENABLED PeriodicCheck

(***************************************************************************)
(* C13, amended.  The tick takes the least event by (timestamp, event id)  *)
(* and fires it when its timestamp < now; while the least event's          *)
(* timestamp is >= now (equality included) nothing is fired.               *)
(***************************************************************************)
C13_FiresWhenPastDue ==
    [][/\ PeriodicCheck
          => (/\ HeadIsMinimal
              /\ HeadEvent[1] < now
              /\ lastOp'.new = HeadEvent[2]
              /\ fired' = fired \cup {HeadEvent[2]})
       /\ (loop_alive /\ Len(event_heap) > 0 /\ HeadEvent[1] < now)
          => ENABLED PeriodicCheck
       /\ (Len(event_heap) > 0 /\ HeadEvent[1] >= now)
          => (~ENABLED PeriodicCheck /\ fired' = fired)]_vars

\* the event scheduled second had the smaller timestamp and was fired
\* first, and the tick has stopped at the other one, which is due now but
\* not past due
C13_Witness ==
    /\ lastOp.op = "wake_up"
    /\ Len(event_heap) = 1
    /\ lastOp.arg < HeadEvent[1]
    /\ lastOp.new > HeadEvent[2]
    /\ HeadEvent[1] = now
    /\ loop_alive

\* task t is snoozed until u / a wake-up event for t is queued at u
SnoozedUntil(t, u) ==
    /\ t \in DOMAIN metadata
    /\ metadata[t].status = Snoozed
    /\ metadata[t].wake_after = u

WakeUpQueued(t, u) ==
    \E e \in Queued(event_heap) : e[1] = u /\ event_map[e[2]] = t

\* the ids uuid4 can have given to tasks
TaskIds == 1..(MaxOps + 1)

(***************************************************************************)
(* C14.  If a task is snoozed with task_snooze(t, until) and a wake-up     *)
(* event for t is scheduled at the same timestamp then, provided the       *)
(* scheduler keeps running and the task is not removed, snoozed again or   *)
(* marked Done, once the clock passes `until` the task eventually leaves   *)
(* Snoozed, and when the event wakes it, it is Active if all its direct    *)
(* predecessors are Done and Pending otherwise.                            *)
(***************************************************************************)
C14_SnoozedTaskWakes ==
    /\ \A t \in TaskIds : \A u \in Times :
          (SnoozedUntil(t, u) /\ WakeUpQueued(t, u))
              ~> (\/ ~SnoozedUntil(t, u)
                  \/ ~loop_alive
                  \/ (now = MaxTime /\ now <= u))
    /\ [][(/\ PeriodicCheck
           /\ SnoozedUntil(HeadTask, HeadEvent[1]))
          => metadata'[HeadTask].status = Rule4(dag_edges, metadata, HeadTask)]_vars

\* scenario B: the task was snoozed, its event was scheduled at the same
\* timestamp, the clock passed it, the event fired and the task, which has
\* no predecessor, is Active and the queue is empty
C14_Witness ==
    /\ lastOp.op = "wake_up"
    /\ lastOp.was = Snoozed
    /\ metadata[lastOp.task].wake_after = lastOp.arg
    /\ now > lastOp.arg
    /\ metadata[lastOp.task].status = Active
    /\ event_heap = <<>>

\* the project as the step leaves it
ProjectNext == [nodes |-> dag_nodes', edges |-> dag_edges', metadata |-> metadata']

\* the stored hash of the project is the hash of the project as it is
HashMatches ==
    /\ project_uuid \in DOMAIN project_hashes
    /\ project_hashes[project_uuid] = get_data_hash(Project)

(***************************************************************************)
(* C15.  save_database(check_hash=True) called twice with no mutation of   *)
(* the project in between writes no project file on the second call:       *)
(* save_project skips the write exactly when check_hash is set and the     *)
(* stored hash of the project equals its current hash, and otherwise       *)
(* purges the metadata, writes the file and records the new hash.          *)
(***************************************************************************)
C15_HashGateSkipsUnchanged ==
    [][/\ (/\ lastOp.op = "save_database"
           /\ lastOp.arg = 1
           /\ SaveDatabase(TRUE))
          => (/\ lastOp'.new = 0
              /\ project_db' = project_db
              /\ project_hashes' = project_hashes)
       /\ \A check_hash \in BOOLEAN :
             SaveDatabase(check_hash)
                => IF check_hash /\ HashMatches
                   THEN /\ lastOp'.new = 0
                        /\ project_db' = project_db
                        /\ project_hashes' = project_hashes
                        /\ metadata' = metadata
                   ELSE /\ lastOp'.new = 1
                        /\ ProjectNext = purge_metadata(Project)
                        /\ project_db' = File(serialize(ProjectNext))
                        /\ project_uuid \in DOMAIN project_hashes'
                        /\ project_hashes'[project_uuid] = get_data_hash(ProjectNext)]_vars

\* a task was created, the database was saved, and the save that followed
\* with check_hash set wrote no project file
C15_Witness ==
    /\ lastOp.op = "save_database"
    /\ lastOp.arg = 1
    /\ lastOp.new = 0
    /\ nops = 3
    /\ next_uuid = 3
    /\ project_db = File(serialize(Project))

\* the step leaves the tasks, the edges and the metadata as they were
ProjectDataUnchanged ==
    /\ dag_nodes' = dag_nodes
    /\ Range(dag_edges') = Range(dag_edges)
    /\ metadata' = metadata

SameProject(p, q) ==
    /\ p.nodes = q.nodes
    /\ Range(p.edges) = Range(q.edges)
    /\ p.metadata = q.metadata

(***************************************************************************)
(* C17.  Serializing a project and loading the result back yields a        *)
(* project with the same task set, the same dependency edge set and the    *)
(* same per-task metadata, for every reachable project state; a project    *)
(* that load_database has just loaded serializes to the file it was        *)
(* loaded from.                                                            *)
(***************************************************************************)
C17_SaveLoadRoundTrip ==
    /\ SameProject(load(serialize(Project)), Project)
    /\ (lastOp.op = "save_database" /\ lastOp.new = 1)
          => SameProject(load(Read(project_db)), Project)
    /\ (lastOp.op = "load_database" /\ lastOp.new = 1)
          => serialize(Project) = Read(project_db)

\* a sub-task was added, the project saved and loaded back: the project
\* has its edge, its Pending parent with wake_after and time_done unset,
\* and its Active sub-task
C17_Witness ==
    /\ lastOp.op = "load_database"
    /\ lastOp.new = 1
    /\ nops = 3
    /\ dag_edges = <<<<2, 1>>>>
    /\ metadata[1] = [root_item EXCEPT !.status = Pending]
    /\ metadata[2].status = Active

\* task t has an issue i
HasIssue(md, t, i) ==
    /\ t \in DOMAIN md
    /\ md[t].issues # NoIssues
    /\ i \in DOMAIN md[t].issues[1]

IssueOps == {"task_close_issue", "task_modify_issue", "task_reopen_issue",
             "task_delete_issue", "task_raise_issue"}

\* the call of the step names a task that does not exist, or an issue the
\* task does not have
UndefinedTarget ==
    \/ lastOp'.op \in {"remove_task", "task_open_issue"} /\ lastOp'.task \notin DOMAIN metadata
    \/ lastOp'.op \in IssueOps /\ ~HasIssue(metadata, lastOp'.task, lastOp'.arg)

(***************************************************************************)
(* C18.  remove_task on a task that does not exist, and every issue        *)
(* operation (open, close, modify, reopen, delete, raise) given an unknown *)
(* task id or an unknown issue id, fails with an error and leaves the      *)
(* project's graph, metadata and issues unchanged.                         *)
(***************************************************************************)
C18_UndefinedTargetFails ==
    [][UndefinedTarget
       => (/\ lastOp'.err # NoError
           /\ GraphUnchanged
           /\ metadata' = metadata)]_vars

(***************************************************************************)
(* C19.  resolve_dependency on a task whose status is Snoozed and whose    *)
(* wake_after is unset fails with the InvalidState error (ValueError) and  *)
(* leaves the task's status and every other part of the project unchanged. *)
(***************************************************************************)
C19_SnoozedWithoutWakeAfterFails ==
    [][(/\ lastOp'.op = "resolve_dependency"
        /\ lastOp'.task \in DOMAIN metadata
        /\ metadata[lastOp'.task].status = Snoozed
        /\ metadata[lastOp'.task].wake_after = None)
       => (/\ lastOp'.err = ValueError
           /\ metadata' = metadata
           /\ GraphUnchanged
           /\ QueueUnchanged)]_vars

\* modify_task_metadata made a task Snoozed without a wake time, and the
\* resolve_dependency called on it has raised
C19_Witness ==
    /\ lastOp.op = "resolve_dependency"
    /\ lastOp.err = ValueError
    /\ lastOp.was = Snoozed
    /\ metadata[lastOp.task].status = Snoozed
    /\ metadata[lastOp.task].wake_after = None

\* the number of tasks in a status
CountOf(md, status) == Cardinality({t \in DOMAIN md : md[t].status = status})

\* the project status the rule gives
DerivedStatus(md) ==
    IF CountOf(md, Active) > 0 THEN Active
    ELSE IF CountOf(md, Snoozed) > 0 THEN Snoozed
    ELSE Done

(***************************************************************************)
(* C20.  TaskGraph.get_data derives the status of a project from freshly   *)
(* recomputed statistics: Active if at least one task is Active, otherwise *)
(* Snoozed if at least one task is Snoozed, otherwise Done; the recomputed *)
(* counts by status sum to the number of metadata entries.  The index      *)
(* save_database has just written carries that status.                     *)
(***************************************************************************)
C20_ProjectStatusDerived ==
    LET statistics == update_statistics(Project)
    IN  /\ statistics.active + statistics.snoozed + statistics.pending
              + statistics.done + statistics.unknown = Cardinality(DOMAIN metadata)
        /\ statistics.active = CountOf(metadata, Active)
        /\ statistics.snoozed = CountOf(metadata, Snoozed)
        /\ project_status(Project) = DerivedStatus(metadata)
        /\ (lastOp.op = "save_database" /\ project_uuid \in projects)
              => Read(projects_db).projects[project_uuid].status = DerivedStatus(metadata)

\* a sub-task was added and snoozed, the database saved: no task is Active,
\* one is Snoozed, its parent is Pending, and the index says Snoozed
C20_Witness ==
    /\ lastOp.op = "save_database"
    /\ nops = 3
    /\ CountOf(metadata, Active) = 0
    /\ CountOf(metadata, Snoozed) = 1
    /\ CountOf(metadata, Pending) = 1
    /\ Read(projects_db).projects[project_uuid].status = Snoozed

(***************************************************************************)
(* C21.  task_raise_issue(task, issue) on an existing issue creates        *)
(* exactly one new task whose name is the issue's title and whose detail   *)
(* is the issue's description, makes it a prerequisite of `task` (the new  *)
(* task Active, `task` Pending), and removes the issue from the task's     *)
(* issue mapping, leaving the task's other issues and every other task     *)
(* unchanged.                                                              *)
(***************************************************************************)
C21_RaiseIssueMakesSubTask ==
    [][(lastOp'.op = "task_raise_issue" /\ HasIssue(metadata, lastOp'.task, lastOp'.arg))
       => LET task == lastOp'.task
              new == lastOp'.new
              issues == metadata[task].issues[1]
              issue == issues[lastOp'.arg]
          IN  /\ lastOp'.err = NoError
              /\ new \notin dag_nodes \cup DOMAIN metadata
              /\ dag_nodes' = dag_nodes \cup {new}
              /\ DOMAIN metadata' = DOMAIN metadata \cup {new}
              /\ dag_edges' = Append(dag_edges, <<new, task>>)
              /\ metadata'[new] = [TaskGraphTaskMetadataItem EXCEPT
                                      !.name = Text(issue.title),
                                      !.detail = issue.description,
                                      !.status = Active]
              /\ metadata'[task] = [metadata[task] EXCEPT
                                       !.status = Pending,
                                       !.issues = Issues(Pop(issues, lastOp'.arg))]
              /\ \A t \in DOMAIN metadata \ {task} : metadata'[t] = metadata[t]]_vars

\* the root had two issues, the first with a description; the first was
\* raised: task 4 carries its title and description, the second issue stays
C21_Witness ==
    /\ lastOp.op = "task_raise_issue"
    /\ lastOp.err = NoError
    /\ lastOp.task = 1
    /\ lastOp.arg = 2
    /\ lastOp.new = 4
    /\ 4 \in DOMAIN metadata
    /\ metadata[4].name = Text("renamed")
    /\ metadata[4].detail = Text("description")
    /\ DOMAIN metadata[1].issues[1] = {3}
    /\ metadata[1].issues[1][3].title = "title"

\* the call of the step is given an id that names no task, or a pair that
\* names no edge
UnknownTaskOrEdge ==
    \/ /\ lastOp'.op \in {"add_sub_task", "add_super_task", "task_done", "task_snooze"}
       /\ lastOp'.task \notin DOMAIN metadata
    \/ /\ lastOp'.op = "add_dependency"
       /\ (lastOp'.task \notin DOMAIN metadata \/ lastOp'.arg \notin DOMAIN metadata)
    \/ /\ lastOp'.op = "remove_dependency"
       /\ <<lastOp'.arg, lastOp'.task>> \notin Range(dag_edges)

(***************************************************************************)
(* C24.  Every project operation that is given an id naming no task, or a  *)
(* pair naming no edge (add_sub_task with an unknown parent,               *)
(* add_super_task with an unknown child, add_dependency with an unknown    *)
(* task or dep, remove_dependency with an unknown edge, task_done and      *)
(* task_snooze with an unknown task), fails with an error and leaves the   *)
(* project unchanged: no node, edge or metadata entry is created or        *)
(* modified.                                                               *)
(***************************************************************************)
C24_UnknownIdFailsUnchanged ==
    [][UnknownTaskOrEdge
       => (/\ lastOp'.err # NoError
           /\ GraphUnchanged
           /\ metadata' = metadata)]_vars

(***************************************************************************)
(* C27.  When a task is snoozed until T1 with a wake-up event at T1 and is *)
(* then re-snoozed until a later T2 without the first event being          *)
(* cancelled, firing the T1 event while now <= T2 leaves the task Snoozed  *)
(* with wake_after = T2, and the T1 event is consumed.                     *)
(***************************************************************************)
C27_SupersededEventLeavesSnoozed ==
    [][(/\ lastOp'.op = "wake_up"
        /\ project_uuid \in projects
        /\ lastOp'.task \in DOMAIN metadata
        /\ metadata[lastOp'.task].status = Snoozed
        /\ metadata[lastOp'.task].wake_after > lastOp'.arg
        /\ now <= metadata[lastOp'.task].wake_after)
       => (/\ lastOp'.err = NoError
           /\ metadata' = metadata
           /\ lastOp'.new \notin DOMAIN event_map'
           /\ \A e \in Range(event_heap') : e[2] # lastOp'.new
           /\ Len(event_heap') = Len(event_heap) - 1)]_vars

\* the root was snoozed until 0, its wake-up scheduled at 0, the root
\* snoozed again until 1; at clock 1 the event fired: the root is still
\* Snoozed until 1 and the queue is empty
C27_Witness ==
    /\ lastOp.op = "wake_up"
    /\ lastOp.task = task_root
    /\ lastOp.arg = 0
    /\ lastOp.was = Snoozed
    /\ nops = 3
    /\ now = 1
    /\ metadata[task_root].status = Snoozed
    /\ metadata[task_root].wake_after = 1
    /\ event_heap = <<>>
    /\ event_map = <<>>

\* the ids of the events the heap holds
HeapIds == {e[2] : e \in Range(event_heap)}

(***************************************************************************)
(* C28.  At every point where control can pass to other code (between     *)
(* operations and at each sleep of the tick loop), the set of event ids    *)
(* held in event_heap equals the key set of event_map, after any sequence  *)
(* of schedule calls, fired events and scheduler loads.  (Every state of   *)
(* the model is such a point: an action runs from one sleep of the loop,   *)
(* or from one call, to the next.)                                         *)
(***************************************************************************)
C28_HeapAndMapInSync ==
    /\ HeapIds = DOMAIN event_map
    /\ Cardinality(HeapIds) = Len(event_heap)

\* an event was scheduled, the queue saved, the event fired and the queue
\* loaded back: the heap and the side-table hold the event again
C28_Witness ==
    /\ lastOp.op = "load_scheduler_database"
    /\ fired # {}
    /\ HeapIds = fired
    /\ DOMAIN event_map = fired
    /\ nops = 3

\* the file of a project, the projects the index lists, and the project a
\* TaskGraph holds under an id after the step
FileOf(id) == IF id = project_uuid THEN project_db ELSE other_db
Listed == IF projects_db = NoFile THEN {} ELSE DOMAIN Read(projects_db).projects
HeldNext(id) == IF id = project_uuid THEN ProjectNext ELSE OtherProject

\* the step is load_database on a TaskGraph that holds no project, as the
\* start of the process calls it
LoadsIntoEmptyTaskGraph ==
    \/ lastOp'.op = "restart"
    \/ lastOp'.op = "load_database" /\ projects = {}

(***************************************************************************)
(* C22.  load_database loads every project listed in the index whose       *)
(* project file exists and, without raising, drops each listed project     *)
(* whose file is missing; afterwards the Task Graph holds exactly the      *)
(* listed projects that have files, each with a recorded hash equal to its *)
(* current hash.                                                           *)
(***************************************************************************)
C22_LoadDropsMissingFiles ==
    [][LoadsIntoEmptyTaskGraph
       => (/\ lastOp'.err = NoError
           /\ projects' = {id \in Listed : FileOf(id) # NoFile}
           /\ project_uuid \in projects' => ProjectNext = load(Read(project_db))
           /\ \A id \in projects' :
                 /\ id \in DOMAIN project_hashes'
                 /\ project_hashes'[id] = get_data_hash(HeldNext(id)))]_vars

\* the database was saved, the project deleted and the process started
\* again: the index lists the project, its file is missing, the start
\* sequence ran to its end and the Task Graph holds no project
C22_Witness ==
    /\ lastOp.op = "restart"
    /\ lastOp.err = NoError
    /\ project_uuid \in Listed
    /\ project_db = NoFile
    /\ projects = {}
    /\ loop_alive

\* the file of a listed project holds a malformed document
MalformedFile(id) == FileOf(id) # NoFile /\ ~is_valid(Read(FileOf(id)))

(***************************************************************************)
(* C23.  When one project's persisted document is malformed,               *)
(* load_database skips only that project and still loads every other       *)
(* project listed in the index; the load as a whole is not aborted.        *)
(***************************************************************************)
C23_MalformedProjectSkipped ==
    [][(LoadsIntoEmptyTaskGraph /\ \E id \in Listed : MalformedFile(id))
       => (/\ lastOp'.err = NoError
           /\ projects' = {id \in Listed : FileOf(id) # NoFile /\ ~MalformedFile(id)})]_vars

\* the step fired an event whose handler raised the ValueError of a task
\* that is Snoozed without wake_after
HandlerFailedInvalidState ==
    /\ lastOp'.op = "wake_up"
    /\ lastOp'.err = ValueError
    /\ lastOp'.task \in DOMAIN metadata
    /\ metadata[lastOp'.task].status = Snoozed
    /\ metadata[lastOp'.task].wake_after = None

(***************************************************************************)
(* C25.  A wake-up event whose handler fails with InvalidState (its target *)
(* task is Snoozed with no wake_after) fails only that one operation: the  *)
(* scheduler tick loop keeps running and every other event in the queue is *)
(* still fired once it is due.  (Stated on the step of the failure: the    *)
(* loop is alive after it, so the events left can fire.)                   *)
(***************************************************************************)
C25_HandlerFailureKeepsLoop ==
    [][HandlerFailedInvalidState => loop_alive']_vars

(***************************************************************************)
(* C26.  Each periodic autosave tick of the Persistence Gate saves the     *)
(* Scheduler's pending-event queue together with the changed projects, so  *)
(* that events scheduled or fired since the previous tick are reflected in *)
(* the persisted scheduler document.                                       *)
(***************************************************************************)
C26_AutosaveSavesQueue ==
    [][lastOp'.op = "autosave"
       => (/\ scheduler_db' # NoFile
           /\ Read(scheduler_db')
                 = [event_heap |-> event_heap', event_map |-> event_map'])]_vars

(***************************************************************************)
(* C29.  An event is removed from the heap and the side-table only after   *)
(* its handler has returned: while the handler runs the event is still     *)
(* present in both (the handler is given the heap and the side-table of    *)
(* the state before the step), and if the handler raises the event remains *)
(* queued.                                                                 *)
(***************************************************************************)
C29_EventRemovedAfterHandler ==
    [][lastOp'.op = "wake_up"
       => (/\ lastOp'.new \in HeapIds
           /\ lastOp'.new \in DOMAIN event_map
           /\ lastOp'.task = event_map[lastOp'.new]
           /\ IF lastOp'.err = NoError
              THEN /\ lastOp'.new \notin DOMAIN event_map'
                   /\ \A e \in Range(event_heap') : e[2] # lastOp'.new
              ELSE QueueUnchanged)]_vars

\* the root was made Snoozed without a wake time and its wake-up was
\* scheduled; the handler raised, and the event is in the heap and in the
\* side-table as before
C29_Witness ==
    /\ lastOp.op = "wake_up"
    /\ lastOp.err = ValueError
    /\ lastOp.new \in HeapIds
    /\ lastOp.new \in DOMAIN event_map
    /\ lastOp.new \in fired

(***************************************************************************)
(* C30.  After stop_scheduler (or the Persistence Gate's stop) flips the   *)
(* running flag, the loop iteration in progress completes and that loop    *)
(* then fires no further event and performs no further autosave; stopping  *)
(* never leaves an event half-processed (handler run but event still       *)
(* queued, or popped from the heap but left in the side-table).  A stop    *)
(* runs between two iterations, so it is a step of its own that changes    *)
(* the flag and nothing else.                                              *)
(***************************************************************************)
C30_StopEndsFiringAndAutosave ==
    [][/\ ~scheduler_running
          => (/\ lastOp'.op # "wake_up"
              /\ fired' = fired
              /\ HeapIds \subseteq {e[2] : e \in Range(event_heap')})
       /\ ~manager_running
          => (/\ lastOp'.op # "autosave"
              /\ project_db' = project_db
              /\ projects_db' = projects_db)
       /\ lastOp'.op \in {"stop_scheduler", "stop_manager"}
          => (/\ QueueUnchanged
              /\ fired' = fired
              /\ metadata' = metadata
              /\ {e[2] : e \in Range(event_heap')} = DOMAIN event_map')]_vars

\* an event is past due and the project has changed when both loops have
\* been stopped: the scheduler's loop has returned, the event has not been
\* fired and nothing has been saved
C30_Witness ==
    /\ ~scheduler_running
    /\ ~manager_running
    /\ ~loop_alive
    /\ Len(event_heap) > 0
    /\ HeadEvent[1] < now
    /\ now > t_next_autosave
    /\ fired = {}
    /\ projects_db = NoFile

(***************************************************************************)
(* C31.  remove_dependency(task, dep) on an existing edge dep -> task      *)
(* raises nothing, removes exactly that edge and re-resolves task: unless  *)
(* task is Done or still Snoozed it ends Active if every remaining direct  *)
(* predecessor is Done and Pending otherwise; no other task's metadata     *)
(* changes and no node is added or removed.                                *)
(***************************************************************************)
C31_RemoveDependencyResolvesTask ==
    [][(/\ lastOp'.op = "remove_dependency"
        /\ <<lastOp'.arg, lastOp'.task>> \in Range(dag_edges))
       => (/\ lastOp'.err = NoError
           /\ dag_nodes' = dag_nodes
           /\ dag_edges' = SelectSeq(dag_edges,
                              LAMBDA e : e # <<lastOp'.arg, lastOp'.task>>)
           /\ DOMAIN metadata' = DOMAIN metadata
           /\ \A t \in DOMAIN metadata :
                 IF t # lastOp'.task
                 THEN metadata'[t] = metadata[t]
                 ELSE IF metadata[t].status = Done \/ StillSnoozed(metadata, t, now)
                 THEN metadata'[t] = metadata[t]
                 ELSE /\ metadata'[t].status = Rule4(dag_edges', metadata', t)
                      /\ metadata'[t] = [metadata[t] EXCEPT !.status = metadata'[t].status])]_vars

\* the root lost its only dependency and went from Pending to Active, while
\* the edge between the two other tasks and their statuses stayed
C31_Witness ==
    /\ lastOp.op = "remove_dependency"
    /\ lastOp.err = NoError
    /\ lastOp.task = task_root
    /\ lastOp.arg = 2
    /\ lastOp.was = Pending
    /\ metadata[task_root].status = Active
    /\ dag_edges = << <<3, 2>> >>
    /\ 2 \in DOMAIN metadata
    /\ metadata[2].status = Pending

\* the tasks reached from the tasks of S along the edges, S included
RECURSIVE Closure(_, _)
Closure(es, S) ==
    LET T == S \cup UNION {SuccSet(es, t) : t \in S}
    IN  IF T = S THEN S ELSE Closure(es, T)

\* t depends on itself, directly or through other tasks
DependsOnItself(es, t) == t \in Closure(es, SuccSet(es, t))

(***************************************************************************)
(* C32.  In every reachable state of a project the dependency graph is     *)
(* acyclic: no task depends, directly or transitively, on itself.          *)
(***************************************************************************)
C32_Acyclic ==
    \A t \in dag_nodes : ~DependsOnItself(dag_edges, t)

(***************************************************************************)
(* C33.  A project created by the create-project request (new_project,     *)
(* then save_project) survives a crash: when the process is killed right   *)
(* after the request, with no save_database since, and started again, the  *)
(* load_database of the start restores the project into the TaskGraph.     *)
(* The index file exists, as it does once the process has started.         *)
(***************************************************************************)
C33_CreatedProjectSurvivesCrash ==
    [][(/\ lastOp.op = "new_project"
        /\ projects_db # NoFile
        /\ lastOp'.op = "restart")
       => other_uuid \in projects']_vars

\* the ids of the events a heap holds
IdsIn(heap) == {e[2] : e \in Range(heap)}

(***************************************************************************)
(* C34.  The shutdown sequence persists the queue and the projects as one  *)
(* snapshot: from stop_scheduler to the return of                          *)
(* save_database(check_hash=False) no event is fired and no task or edge   *)
(* of the project changes, both flags are down, scheduler.json holds the   *)
(* queue and the project file holds the project as they are in memory,     *)
(* and the saved queue holds exactly the scheduled events whose handler    *)
(* has not run.                                                            *)
(***************************************************************************)
C34_ShutdownSnapshotConsistent ==
    [][lastOp'.op = "shutdown"
       => (/\ fired' = fired
           /\ QueueUnchanged
           /\ GraphUnchanged
           /\ metadata' = metadata
           /\ ~scheduler_running' /\ ~manager_running'
           /\ scheduler_db' = File([event_heap |-> event_heap', event_map |-> event_map'])
           /\ project_uuid \in projects
                 => /\ project_db' # NoFile
                    /\ SameProject(load(Read(project_db')),
                                   [nodes |-> dag_nodes', edges |-> dag_edges',
                                    metadata |-> metadata'])
           /\ DOMAIN Read(projects_db').projects = projects'
           /\ IdsIn(Read(scheduler_db').event_heap) \cap fired' = {}
           /\ DOMAIN Read(scheduler_db').event_map = IdsIn(event_heap) \ fired)]_vars

\* the process shut down after one wake-up had fired and woken its task
\* while another was still queued: the saved queue holds the second alone
\* and the saved project holds the task Active
C34_Witness ==
    /\ lastOp.op = "shutdown"
    /\ fired = {1}
    /\ scheduler_db # NoFile
    /\ IdsIn(Read(scheduler_db).event_heap) = {2}
    /\ project_db # NoFile
    /\ load(Read(project_db)).metadata[task_root].status = Active
    /\ load(Read(project_db)).metadata[task_root].wake_after = 0

(***************************************************************************)
(* C35.  With start_scheduler called while an earlier periodic_check       *)
(* coroutine is alive, the coroutines interleave at their sleeps only:     *)
(* no coroutine invokes the handler of an event whose handler has been     *)
(* invoked before, and between the steps the heap and the side-table hold  *)
(* the same event ids.                                                     *)
(***************************************************************************)
C35_TwoLoopsFireAtMostOnce ==
    /\ [](/\ IdsIn(event_heap) = DOMAIN event_map
          /\ Cardinality(IdsIn(event_heap)) = Len(event_heap))
    /\ [][(PeriodicCheck \/ SecondPeriodicCheck) => HeadEvent[2] \notin fired]_vars

(***************************************************************************)
(* C36.  Whenever TaskGraph.get_data reports the status of the project as  *)
(* Done, every task of the project is Done.                                *)
(***************************************************************************)
C36_DoneProjectHasAllTasksDone ==
    (/\ project_uuid \in projects
     /\ get_data(projects, Project).projects[project_uuid].status = Done)
       => \A t \in DOMAIN metadata : metadata[t].status = Done

(***************************************************************************)
(* C37.  In every reachable state of a project, also after load_database   *)
(* has loaded it and after remove_task, task_root names a task that is a   *)
(* node of the DAG and a key of the metadata mapping.                      *)
(***************************************************************************)
C37_RootIsATask ==
    project_uuid \in projects
       => (task_root \in dag_nodes /\ task_root \in DOMAIN metadata)

=============================================================================
